---- MODULE Spec2Model ----
(***************************************************************************)
(* Identity and credential issuance of irl-browser-onboarding:             *)
(* core/crypto (base64url, key generation, DID derivation, createJWT,      *)
(* decodeJWT, verifyJWT) and core/api (MockIRLBrowser, API injection);     *)
(* the useIrlOnboarding hook, the IrlOnboarding component, SocialsStep     *)
(* with utils/socialLinks, and AvatarStep with utils/imageProcessing.      *)
(*                                                                         *)
(* Strings are sequences of UTF-16 code units, byte arrays are sequences   *)
(* of 0..255.  An operation that can throw returns an outcome record       *)
(* [kind, value, error] with kind "ok" or "error".                         *)
(***************************************************************************)
EXTENDS Integers, Sequences, FiniteSets, TLC

VARIABLES
    token,        \* the assertion string under examination (<<>>: none)
    tokenOrig,    \* the string createJWT returned for it (<<>>: not from createJWT)
    tokenSeed,    \* seed of the key pair whose secret key signed tokenOrig
    ret,          \* the last call and its outcome
    profile,      \* profile store: what getProfile() returns
    privateKey,   \* profile store: what getPrivateKey() returns
    now,          \* Math.floor(Date.now() / 1000)
    origin,       \* window.location.origin
    window,       \* the global object and its irlBrowser property
    apiObjects,   \* number of API objects constructed so far
    hooks,        \* the useIrlOnboarding instances
    onboarding,   \* the IrlOnboarding component
    socialInputs, \* SocialsStep: the inputs, by platform
    submitted,    \* SocialsStep: what onNext was last called with
    avatarStep    \* AvatarStep: avatar, isProcessing, error

vars == <<token, tokenOrig, tokenSeed, ret, profile, privateKey, now, origin,
          window, apiObjects, hooks, onboarding, socialInputs, submitted,
          avatarStep>>

Ok(v) == [kind |-> "ok", value |-> v, error |-> ""]
Throw(e) == [kind |-> "error", value |-> <<>>, error |-> e]

(***************************************************************************)
(* Bounds of the model.                                                    *)
(***************************************************************************)
MaxSeed == 2      \* seeds (key pairs) 1..MaxSeed
MaxPayload == 2   \* payloads 1..MaxPayload handed to createJWT
MaxNow == 2       \* clock values 1000..1000+MaxNow
MaxBytes == 3     \* byte sequences of length 0..MaxBytes handed to base64url

(***************************************************************************)
(* base64-js, as called at crypto.ts:27, :44, :86, :137.                   *)
(***************************************************************************)
\* base64.fromByteArray: standard base64 with '=' padding
fromByteArray(b) ==
    LET
        \* lookup[v]: the base64 alphabet A-Z a-z 0-9 + /
        B64Char(v) == IF v < 26 THEN 65 + v
                      ELSE IF v < 52 THEN 71 + v
                      ELSE IF v < 62 THEN v - 4
                      ELSE IF v = 62 THEN 43 ELSE 47
    IN
    LET
        ByteAt(b0, i) == IF i <= Len(b0) THEN b0[i] ELSE 0
    IN
    [j \in 1..(4 * ((Len(b) + 2) \div 3)) |->
        LET g == (j - 1) \div 4
            k == (j - 1) % 4
            b1 == ByteAt(b, 3 * g + 1)
            b2 == ByteAt(b, 3 * g + 2)
            b3 == ByteAt(b, 3 * g + 3)
        IN IF k = 0 THEN B64Char(b1 \div 4)
           ELSE IF k = 1 THEN B64Char((b1 % 4) * 16 + b2 \div 16)
           ELSE IF k = 2 THEN (IF 3 * g + 2 > Len(b) THEN 61
                               ELSE B64Char((b2 % 16) * 4 + b3 \div 64))
           ELSE (IF 3 * g + 3 > Len(b) THEN 61 ELSE B64Char(b3 % 64))]

\* base64.toByteArray: getLens, _byteLength and the decoding loop
toByteArray(s) ==
    LET
        \* String.prototype.indexOf for one code unit (0-based, -1 when absent)
        IndexOf(s0, c) ==
            IF \E i \in 1..Len(s0) : s0[i] = c
            THEN (CHOOSE i \in 1..Len(s0) : s0[i] = c /\ \A j \in 1..(i - 1) : s0[j] # c) - 1
            ELSE -1
    IN
    LET
        \* revLookup[c]; base64-js also maps '-' to 62 and '_' to 63; an entry that
        \* is undefined becomes 0 under the shifts and ors of toByteArray
        revLookup(c) == IF c >= 65 /\ c <= 90 THEN c - 65
                        ELSE IF c >= 97 /\ c <= 122 THEN c - 71
                        ELSE IF c >= 48 /\ c <= 57 THEN c + 4
                        ELSE IF c = 43 \/ c = 45 THEN 62
                        ELSE IF c = 47 \/ c = 95 THEN 63
                        ELSE 0
    IN
    LET len == Len(s) IN
    IF len % 4 > 0 THEN Throw("Invalid string. Length must be a multiple of 4")
    ELSE
    LET idx == IndexOf(s, 61)
        validLen == IF idx = -1 THEN len ELSE idx
        placeHoldersLen == IF validLen = len THEN 0 ELSE 4 - (validLen % 4)
        byteLength == ((validLen + placeHoldersLen) * 3) \div 4 - placeHoldersLen
        loopLen == IF placeHoldersLen > 0 THEN validLen - 4 ELSE validLen
        groups == IF loopLen <= 0 THEN 0 ELSE (loopLen + 3) \div 4
        rl(i) == IF i < len THEN revLookup(s[i + 1]) ELSE 0
    IN IF byteLength < 0 THEN Throw("RangeError: Invalid typed array length")
       ELSE Ok([j \in 1..byteLength |->
            LET p == j - 1
                g == IF p < 3 * groups THEN p \div 3 ELSE groups
                k == p - 3 * g
                v0 == rl(4 * g)
                v1 == rl(4 * g + 1)
                v2 == rl(4 * g + 2)
                v3 == rl(4 * g + 3)
            IN IF p < 3 * groups
               THEN (IF k = 0 THEN v0 * 4 + v1 \div 16
                     ELSE IF k = 1 THEN (v1 % 16) * 16 + v2 \div 4
                     ELSE (v2 % 4) * 64 + v3)
               ELSE IF placeHoldersLen = 2 /\ k = 0 THEN v0 * 4 + v1 \div 16
               ELSE IF placeHoldersLen = 1 /\ k = 0 THEN v0 * 4 + v1 \div 16
               ELSE IF placeHoldersLen = 1 /\ k = 1 THEN (v1 % 16) * 16 + v2 \div 4
               ELSE 0])

(***************************************************************************)
(* base64url (crypto.ts:25-46).                                            *)
(***************************************************************************)
\* s.replace(/a/g, b) for single code units
ReplaceAll(s, a, b) == [i \in 1..Len(s) |-> IF s[i] = a THEN b ELSE s[i]]

Repeat(c, n) == [i \in 1..n |-> c]

\* base64url.encode keeping the '=' padding
base64url_encode_KeepsPadding(input) ==
    ReplaceAll(ReplaceAll(fromByteArray(input), 43, 45), 47, 95)

base64url_encode(input) ==
    LET
        \* s.replace(/=/g, '')
        RemoveAll(s, a) == SelectSeq(s, LAMBDA c : c # a)
    IN
    RemoveAll(ReplaceAll(ReplaceAll(fromByteArray(input), 43, 45), 47, 95), 61)

base64url_decode(input) ==
    LET base64String == ReplaceAll(ReplaceAll(input, 45, 43), 95, 47)
        padding == (4 - (Len(base64String) % 4)) % 4
    IN toByteArray(base64String \o Repeat(61, padding))

(***************************************************************************)
(* TextEncoder: UTF-8 of a string of code units below 0xD800.              *)
(***************************************************************************)
\* concatenation of ss[lo..hi], by halving
RECURSIVE Concat(_, _, _)
Concat(ss, lo, hi) ==
    IF lo > hi THEN <<>>
    ELSE IF lo = hi THEN ss[lo]
    ELSE Concat(ss, lo, (lo + hi) \div 2) \o Concat(ss, (lo + hi) \div 2 + 1, hi)

TextEncode(s) ==
    LET
        Utf8(c) == IF c < 128 THEN <<c>>
                   ELSE IF c < 2048 THEN <<192 + (c \div 64), 128 + (c % 64)>>
                   ELSE <<224 + (c \div 4096), 128 + ((c \div 64) % 64), 128 + (c % 64)>>
    IN
                 Concat([i \in 1..Len(s) |-> Utf8(s[i])], 1, Len(s))

(***************************************************************************)
(* JSON values: [k |-> "null"], [k |-> "bool", b |-> _], [k |-> "num",     *)
(* n |-> _], [k |-> "str", s |-> _], [k |-> "arr", e |-> <<values>>] and   *)
(* [k |-> "obj", e |-> <<[key |-> _, val |-> _], ...>>] in insertion       *)
(* order.  JSON.stringify as called at crypto.ts:151-152.                  *)
(***************************************************************************)
JNull == [k |-> "null"]
JBool(b) == [k |-> "bool", b |-> b]
JNum(n) == [k |-> "num", n |-> n]
JStr(s) == [k |-> "str", s |-> s]
JArr(e) == [k |-> "arr", e |-> e]
JObj(e) == [k |-> "obj", e |-> e]
JEntry(key, val) == [key |-> key, val |-> val]

RECURSIVE Digits(_)
Digits(n) == IF n < 10 THEN <<48 + n>> ELSE Digits(n \div 10) \o <<48 + (n % 10)>>

Quote(s) ==
    LET
        \* QuoteJSONString for one code unit
        QuoteChar(c) ==
            LET
                Hex(d) == IF d < 10 THEN 48 + d ELSE 87 + d
            IN
                        IF c = 34 THEN <<92, 34>>
                        ELSE IF c = 92 THEN <<92, 92>>
                        ELSE IF c = 8 THEN <<92, 98>>
                        ELSE IF c = 9 THEN <<92, 116>>
                        ELSE IF c = 10 THEN <<92, 110>>
                        ELSE IF c = 12 THEN <<92, 102>>
                        ELSE IF c = 13 THEN <<92, 114>>
                        ELSE IF c < 32 THEN <<92, 117, 48, 48, Hex(c \div 16), Hex(c % 16)>>
                        ELSE <<c>>
    IN
            <<34>> \o Concat([i \in 1..Len(s) |-> QuoteChar(s[i])], 1, Len(s)) \o <<34>>

RECURSIVE JSONstringify(_)
RECURSIVE StringifyItems(_, _)
RECURSIVE StringifyEntries(_, _)
JSONstringify(v) ==
    LET
        NumberToString(n) == IF n < 0 THEN <<45>> \o Digits(0 - n) ELSE Digits(n)
    IN
    IF v.k = "null" THEN <<110, 117, 108, 108>>
    ELSE IF v.k = "bool" THEN (IF v.b THEN <<116, 114, 117, 101>>
                               ELSE <<102, 97, 108, 115, 101>>)
    ELSE IF v.k = "num" THEN NumberToString(v.n)
    ELSE IF v.k = "str" THEN Quote(v.s)
    ELSE IF v.k = "arr" THEN <<91>> \o StringifyItems(v.e, 1) \o <<93>>
    ELSE <<123>> \o StringifyEntries(v.e, 1) \o <<125>>

StringifyItems(e, i) ==
    IF i > Len(e) THEN <<>>
    ELSE (IF i > 1 THEN <<44>> ELSE <<>>) \o JSONstringify(e[i])
         \o StringifyItems(e, i + 1)

StringifyEntries(e, i) ==
    IF i > Len(e) THEN <<>>
    ELSE (IF i > 1 THEN <<44>> ELSE <<>>) \o Quote(e[i].key) \o <<58>>
         \o JSONstringify(e[i].val) \o StringifyEntries(e, i + 1)

(***************************************************************************)
(* @stablelib/ed25519, as called at crypto.ts:82, :159, :220, modelled as  *)
(* an ideal deterministic signature scheme: every 32-byte seed has one     *)
(* public key, every (secret key, message) one signature, and verify       *)
(* accepts exactly that signature.  The digest stands for SHA-512: two     *)
(* position-weighted checksums modulo the primes 65521 and 65519, which any       *)
(* change of a single byte of the message changes.                         *)
(***************************************************************************)
SEED_SIZE == 32
PUBLIC_KEY_LENGTH == 32
SECRET_KEY_LENGTH == 64
SIGNATURE_LENGTH == 64

\* sum of w[lo..hi] modulo p, by halving
RECURSIVE SumMod(_, _, _, _)
SumMod(w, lo, hi, p) ==
    IF lo > hi THEN 0
    ELSE IF lo = hi THEN w[lo] % p
    ELSE (SumMod(w, lo, (lo + hi) \div 2, p)
          + SumMod(w, (lo + hi) \div 2 + 1, hi, p)) % p

PublicKeyOfSeed(seed) == [i \in 1..Len(seed) |-> 255 - seed[i]]

ed25519_generateKeyPairFromSeed(seed) ==
    [publicKey |-> PublicKeyOfSeed(seed),
     secretKey |-> seed \o PublicKeyOfSeed(seed)]

\* ed25519.sign(secretKey, message): R || S; the public half is read from
\* secretKey.subarray(32)
ed25519_sign(secretKey, message) ==
    LET
        Digest(m) ==
            LET h1 == SumMod([i \in 1..Len(m) |-> i * (m[i] + 1)], 1, Len(m), 65521)
                h2 == SumMod([i \in 1..Len(m) |-> i * i * (m[i] + 1)], 1, Len(m), 65519)
            IN <<h1 % 256, h1 \div 256, h2 % 256, h2 \div 256>>
    IN
    LET d == Digest(message)
        R == [j \in 1..32 |-> (secretKey[j] * 7 + d[((j - 1) % 4) + 1]) % 256]
        S == [j \in 1..32 |->
                (secretKey[j] + secretKey[32 + j] * 3 + R[j] + d[(j % 4) + 1]) % 256]
    IN R \o S

\* ed25519.verify(publicKey, message, signature).  It throws on a signature
\* that is not 64 bytes.  It does not check the length of publicKey: on a
\* key that is not 32 bytes the field arithmetic runs on undefined entries,
\* and the outcome und is whatever that computation yields.
ed25519_verify(publicKey, message, signature, und) ==
    LET
        SeedOfPublicKey(pk) == [i \in 1..Len(pk) |-> 255 - pk[i]]
    IN
    IF Len(signature) # SIGNATURE_LENGTH
    THEN Throw("ed25519: signature must be 64 bytes")
    ELSE IF Len(publicKey) # PUBLIC_KEY_LENGTH THEN und
    ELSE Ok(signature = ed25519_sign(SeedOfPublicKey(publicKey) \o publicKey, message))

UndefinedVerify == {Ok(TRUE), Ok(FALSE), Throw("TypeError")}

(***************************************************************************)
(* createJWT, verifyJWT (crypto.ts:135-166, 202-225).                      *)
(***************************************************************************)
\* jwt.split('.')
Split(s, sep) ==
    LET at == {i \in 1..Len(s) : s[i] = sep}
        \* position of the k-th separator; 0 and Len(s) + 1 bracket the string
        pos(k) == IF k = 0 THEN 0
                  ELSE IF k > Cardinality(at) THEN Len(s) + 1
                  ELSE CHOOSE i \in at : Cardinality({j \in at : j < i}) = k - 1
    IN [k \in 1..(Cardinality(at) + 1) |-> SubSeq(s, pos(k - 1) + 1, pos(k) - 1)]

\* { alg: 'EdDSA', typ: 'JWT' }
JWT_HEADER == JObj(<<JEntry(<<97, 108, 103>>, JStr(<<69, 100, 68, 83, 65>>)),
                     JEntry(<<116, 121, 112>>, JStr(<<74, 87, 84>>))>>)

\* createJWT signing the payload segment alone
createJWT_SignsPayloadOnly(payload, key) ==
    LET privateKeyBytes == toByteArray(key) IN
    IF privateKeyBytes.kind = "error" THEN privateKeyBytes
    ELSE IF Len(privateKeyBytes.value) # 64
    THEN Throw("Invalid private key length. Expected 64 bytes.")
    ELSE
    LET headerB64 == base64url_encode(TextEncode(JSONstringify(JWT_HEADER)))
        payloadB64 == base64url_encode(TextEncode(JSONstringify(payload)))
        signingInput == headerB64 \o <<46>> \o payloadB64
        signature == ed25519_sign(privateKeyBytes.value, TextEncode(payloadB64))
    IN Ok(signingInput \o <<46>> \o base64url_encode(signature))

\* createJWT encoding the signature as padded base64
createJWT_PaddedSignature(payload, key) ==
    LET privateKeyBytes == toByteArray(key) IN
    IF privateKeyBytes.kind = "error" THEN privateKeyBytes
    ELSE IF Len(privateKeyBytes.value) # 64
    THEN Throw("Invalid private key length. Expected 64 bytes.")
    ELSE
    LET headerB64 == base64url_encode(TextEncode(JSONstringify(JWT_HEADER)))
        payloadB64 == base64url_encode(TextEncode(JSONstringify(payload)))
        signingInput == headerB64 \o <<46>> \o payloadB64
        signature == ed25519_sign(privateKeyBytes.value, TextEncode(signingInput))
    IN Ok(signingInput \o <<46>> \o fromByteArray(signature))

\* createJWT rejecting only keys shorter than 64 bytes
createJWT_RejectsShortOnly(payload, key) ==
    LET privateKeyBytes == toByteArray(key) IN
    IF privateKeyBytes.kind = "error" THEN privateKeyBytes
    ELSE IF Len(privateKeyBytes.value) < 64
    THEN Throw("Invalid private key length. Expected 64 bytes.")
    ELSE
    LET headerB64 == base64url_encode(TextEncode(JSONstringify(JWT_HEADER)))
        payloadB64 == base64url_encode(TextEncode(JSONstringify(payload)))
        signingInput == headerB64 \o <<46>> \o payloadB64
        signature == ed25519_sign(privateKeyBytes.value, TextEncode(signingInput))
    IN Ok(signingInput \o <<46>> \o base64url_encode(signature))

createJWT(payload, key) ==
    LET privateKeyBytes == toByteArray(key) IN
    IF privateKeyBytes.kind = "error" THEN privateKeyBytes
    ELSE IF Len(privateKeyBytes.value) # 64
    THEN Throw("Invalid private key length. Expected 64 bytes.")
    ELSE
    LET headerB64 == base64url_encode(TextEncode(JSONstringify(JWT_HEADER)))
        payloadB64 == base64url_encode(TextEncode(JSONstringify(payload)))
        signingInput == headerB64 \o <<46>> \o payloadB64
        signature == ed25519_sign(privateKeyBytes.value, TextEncode(signingInput))
    IN Ok(signingInput \o <<46>> \o base64url_encode(signature))

\* the try block of verifyJWT discarding the verdict of ed25519.verify
verifyJWT_try_IgnoresVerdict(jwt, publicKey, und) ==
    LET parts == Split(jwt, 46) IN
    IF Len(parts) # 3 THEN Ok(FALSE)
    ELSE
    LET signatureBytes == base64url_decode(parts[3])
    IN IF signatureBytes.kind = "error" THEN signatureBytes
       ELSE IF Len(signatureBytes.value) # SIGNATURE_LENGTH
       THEN Throw("ed25519: signature must be 64 bytes")
       ELSE Ok(TRUE)

\* the try block of verifyJWT
verifyJWT_try(jwt, publicKey, und) ==
    LET parts == Split(jwt, 46) IN
    IF Len(parts) # 3 THEN Ok(FALSE)
    ELSE
    LET signingInput == parts[1] \o <<46>> \o parts[2]
        signatureBytes == base64url_decode(parts[3])
    IN IF signatureBytes.kind = "error" THEN signatureBytes
       ELSE ed25519_verify(publicKey, TextEncode(signingInput),
                           signatureBytes.value, und)

\* verifyJWT rejecting every assertion once the clock has passed the latest
\* expiry an assertion of the model can carry
verifyJWT_ChecksClock(jwt, publicKey, und) ==
    LET r == verifyJWT_try(jwt, publicKey, und) IN
    IF now > 1000 + MaxNow + 120 THEN Ok(FALSE)
    ELSE IF r.kind = "error" THEN Ok(FALSE) ELSE r

\* verifyJWT accepting only the header segment createJWT writes
verifyJWT_RequiresHeader(jwt, publicKey, und) ==
    LET r == verifyJWT_try(jwt, publicKey, und) IN
    IF Split(jwt, 46)[1] # <<101, 121, 74, 104, 98, 71, 99, 105, 79, 105, 74, 70, 90, 69, 82, 84, 81, 83, 73, 115, 73, 110, 82, 53, 99, 67, 73, 54, 73, 107, 112, 88, 86, 67, 74, 57>> THEN Ok(FALSE)
    ELSE IF r.kind = "error" THEN Ok(FALSE) ELSE r

\* verifyJWT without the catch clause
verifyJWT_NoCatch(jwt, publicKey, und) == verifyJWT_try(jwt, publicKey, und)

\* try { ... } catch (error) { return false }
verifyJWT(jwt, publicKey, und) ==
    LET r == verifyJWT_try(jwt, publicKey, und) IN
    IF r.kind = "error" THEN Ok(FALSE) ELSE r

(***************************************************************************)
(* TextDecoder (UTF-8, replacement of malformed input by U+FFFD, leading   *)
(* byte-order mark dropped) and JSON.parse, as called at crypto.ts:189-190.*)
(***************************************************************************)
\* length of the UTF-8 sequence a byte announces; 0 for a byte that cannot lead
Utf8Lead(b) == IF b < 128 THEN 1
               ELSE IF b >= 194 /\ b <= 223 THEN 2
               ELSE IF b >= 224 /\ b <= 239 THEN 3
               ELSE IF b >= 240 /\ b <= 244 THEN 4
               ELSE 0

\* bytes of the sequence led by b[q] that are well formed, the lead included
Utf8Prefix(b, q) ==
    LET
        \* whether byte c may stand at offset k (1..3) after the lead byte l
        Utf8Cont(l, k, c) ==
            IF k = 1 /\ l = 224 THEN c >= 160 /\ c <= 191
            ELSE IF k = 1 /\ l = 237 THEN c >= 128 /\ c <= 159
            ELSE IF k = 1 /\ l = 240 THEN c >= 144 /\ c <= 191
            ELSE IF k = 1 /\ l = 244 THEN c >= 128 /\ c <= 143
            ELSE c >= 128 /\ c <= 191
    IN
    LET n == Utf8Lead(b[q])
        good(k) == q + k <= Len(b) /\ Utf8Cont(b[q], k, b[q + k])
    IN IF n <= 1 THEN 1
       ELSE IF ~good(1) THEN 1
       ELSE IF n = 2 \/ ~good(2) THEN 2
       ELSE IF n = 3 \/ ~good(3) THEN 3
       ELSE 4

TextDecode(b) ==
    LET
        Utf8Decode1(b0, q) ==
            LET n == Utf8Lead(b0[q]) IN
            IF n = 1 THEN <<b0[q]>>
            ELSE IF n = 0 \/ Utf8Prefix(b0, q) < n THEN <<65533>>
            ELSE IF n = 2 THEN <<(b0[q] - 192) * 64 + (b0[q + 1] - 128)>>
            ELSE IF n = 3 THEN <<(b0[q] - 224) * 4096 + (b0[q + 1] - 128) * 64 + (b0[q + 2] - 128)>>
            ELSE LET cp == (b0[q] - 240) * 262144 + (b0[q + 1] - 128) * 4096
                           + (b0[q + 2] - 128) * 64 + (b0[q + 3] - 128) - 65536
                 IN <<55296 + (cp \div 1024), 56320 + (cp % 1024)>>
    IN
    LET covered(p) == \E q \in (p - 3)..(p - 1) :
                         /\ q >= 1
                         /\ Utf8Lead(b[q]) >= 2
                         /\ q + Utf8Prefix(b, q) - 1 >= p
        out == Concat([p \in 1..Len(b) |->
                          IF covered(p) THEN <<>> ELSE Utf8Decode1(b, p)], 1, Len(b))
    IN IF Len(out) > 0 /\ out[1] = 65279 THEN Tail(out) ELSE out

\* least index j in i..Len(s) with s[j] in (or, when inside is FALSE, not in)
\* the set cs; Len(s) + 1 when there is none
Scan(s, i, cs, inside) ==
    IF i > Len(s) THEN Len(s) + 1
    ELSE CHOOSE j \in i..(Len(s) + 1) :
            /\ j = Len(s) + 1 \/ (s[j] \in cs) = inside
            /\ \A k \in i..(j - 1) : (s[k] \in cs) # inside

JSON_DIGITS == 48..57
SkipWs(s, i) ==
    LET
        JSON_WS == {32, 9, 10, 13}
    IN
                Scan(s, i, JSON_WS, FALSE)

ParseFail == [ok |-> FALSE, v |-> JNull, i |-> 0]
Parsed(v, i) == [ok |-> TRUE, v |-> v, i |-> i]

RECURSIVE DigitsValue(_, _, _)
DigitsValue(s, lo, hi) ==
    IF lo > hi THEN 0 ELSE DigitsValue(s, lo, hi - 1) * 10 + (s[hi] - 48)

\* a number token starting at s[i]
ParseNumber(s, i) ==
    LET
        JSON_NUMCHARS == (48..57) \cup {43, 45, 46, 69, 101}
    IN
    LET end == Scan(s, i, JSON_NUMCHARS, FALSE)          \* one past the token
        neg == s[i] = 45
        i0 == IF neg THEN i + 1 ELSE i                   \* integer part
        i1 == Scan(s, i0, JSON_DIGITS, FALSE)            \* one past it
        intOk == i1 > i0 /\ i1 <= end /\ (s[i0] # 48 \/ i1 = i0 + 1)
        hasFrac == i1 < end /\ s[i1] = 46
        f1 == IF hasFrac THEN Scan(s, i1 + 1, JSON_DIGITS, FALSE) ELSE i1
        fracOk == ~hasFrac \/ f1 > i1 + 1
        hasExp == f1 < end /\ s[f1] \in {69, 101}
        e0 == IF hasExp /\ f1 + 1 < end /\ s[f1 + 1] \in {43, 45}
              THEN f1 + 2 ELSE f1 + 1
        e1 == IF hasExp THEN Scan(s, e0, JSON_DIGITS, FALSE) ELSE f1
        expOk == ~hasExp \/ e1 > e0
    IN IF ~(intOk /\ fracOk /\ expOk /\ e1 = end) THEN ParseFail
       ELSE IF hasFrac \/ hasExp \/ i1 - i0 > 9
       THEN Parsed([k |-> "numlex", s |-> SubSeq(s, i, end - 1)], end)
       ELSE Parsed(JNum(IF neg THEN 0 - DigitsValue(s, i0, i1 - 1)
                        ELSE DigitsValue(s, i0, i1 - 1)), end)

\* a string token whose opening quote is s[i]
ParseString(s, i) ==
    LET
        HexVal(c) == IF c <= 57 THEN c - 48 ELSE IF c <= 70 THEN c - 55 ELSE c - 87
    IN
    LET
        JSON_ESCAPES == {34, 92, 47, 98, 102, 110, 114, 116}
    IN
    LET
        JSON_HEX == (48..57) \cup (65..70) \cup (97..102)
    IN
    LET \* backslashes directly before position p, inside the token
        run(p) == p - 1 - (CHOOSE q \in i..(p - 1) :
                              s[q] # 92 /\ \A r \in (q + 1)..(p - 1) : s[r] = 92)
        closing(c) == s[c] = 34 /\ run(c) % 2 = 0
        \* the first closing quote, 0 if there is none
        j == IF \E c \in (i + 1)..Len(s) : closing(c)
             THEN CHOOSE c \in (i + 1)..Len(s) :
                     closing(c) /\ \A d \in (i + 1)..(c - 1) : ~closing(d)
             ELSE 0
        intro(p) == s[p] = 92 /\ run(p) % 2 = 0      \* starts an escape
        escaped(p) == p > i + 1 /\ intro(p - 1)
        uEsc(p) == escaped(p) /\ s[p] = 117
        hexOf(p) == \E q \in (p - 4)..(p - 1) : q > i /\ uEsc(q)
        okAt(p) ==
            /\ s[p] >= 32
            /\ escaped(p) /\ ~hexOf(p) => s[p] \in JSON_ESCAPES \cup {117}
            /\ uEsc(p) /\ ~hexOf(p) =>
                  /\ p + 4 < j
                  /\ \A q \in (p + 1)..(p + 4) : s[q] \in JSON_HEX
        unesc(c) == IF c = 98 THEN 8 ELSE IF c = 102 THEN 12 ELSE IF c = 110 THEN 10
                    ELSE IF c = 114 THEN 13 ELSE IF c = 116 THEN 9 ELSE c
        emit(p) ==
            IF hexOf(p) THEN <<>>
            ELSE IF intro(p) THEN <<>>
            ELSE IF uEsc(p) THEN <<HexVal(s[p + 1]) * 4096 + HexVal(s[p + 2]) * 256
                                   + HexVal(s[p + 3]) * 16 + HexVal(s[p + 4])>>
            ELSE IF escaped(p) THEN <<unesc(s[p])>>
            ELSE <<s[p]>>
    IN IF j = 0 THEN ParseFail
       ELSE IF \E p \in (i + 1)..(j - 1) : ~okAt(p) THEN ParseFail
       ELSE Parsed(JStr(Concat([k \in 1..(j - 1 - i) |-> emit(i + k)], 1, j - 1 - i)),
                   j + 1)

StartsWith(s, i, w) == i + Len(w) - 1 <= Len(s) /\ SubSeq(s, i, i + Len(w) - 1) = w

\* a member name whose opening quote is looked for from s[i] on, and the
\* colon after it; i is the position after the colon
ParseKey(s, i) ==
    LET colon(key, c) == IF key.ok /\ c <= Len(s) /\ s[c] = 58
                         THEN Parsed(key.v.s, c + 1) ELSE ParseFail
        name(key) == colon(key, IF key.ok THEN SkipWs(s, key.i) ELSE 0)
        quote(k0) == name(IF k0 <= Len(s) /\ s[k0] = 34 THEN ParseString(s, k0)
                          ELSE ParseFail)
    IN quote(SkipWs(s, i))

\* The parser as a machine: st.mode is "value" (a value is expected from
\* s[st.i] on), "after" (the value st.v ended before s[st.i]) or "fail";
\* st.stack holds the arrays and objects that are still open, the innermost
\* last: [k |-> "arr", e |-> elements read] or [k |-> "obj", e |-> members
\* read, key |-> name of the member being read].
ParseState(mode, i, stack, v) == [mode |-> mode, i |-> i, stack |-> stack, v |-> v]

ParseStop == ParseState("fail", 0, <<>>, JNull)

\* a value starts at the first non-blank at or after s[st.i]
ParseValueStart(s, st) ==
    LET j == SkipWs(s, st.i)
        k == SkipWs(s, j + 1)
        after(r) == IF r.ok THEN ParseState("after", r.i, st.stack, r.v)
                    ELSE ParseStop
        member(key) ==
            IF key.ok
            THEN ParseState("value", key.i,
                            Append(st.stack, [k |-> "obj", e |-> <<>>, key |-> key.v]),
                            JNull)
            ELSE ParseStop
    IN IF j > Len(s) THEN ParseStop
       ELSE IF s[j] = 123 THEN
           (IF k <= Len(s) /\ s[k] = 125
            THEN ParseState("after", k + 1, st.stack, JObj(<<>>))
            ELSE member(ParseKey(s, j + 1)))
       ELSE IF s[j] = 91 THEN
           (IF k <= Len(s) /\ s[k] = 93
            THEN ParseState("after", k + 1, st.stack, JArr(<<>>))
            ELSE ParseState("value", j + 1, Append(st.stack, [k |-> "arr", e |-> <<>>]),
                            JNull))
       ELSE IF s[j] = 34 THEN after(ParseString(s, j))
       ELSE IF s[j] = 45 \/ s[j] \in JSON_DIGITS THEN after(ParseNumber(s, j))
       ELSE IF StartsWith(s, j, <<116, 114, 117, 101>>)
       THEN ParseState("after", j + 4, st.stack, JBool(TRUE))
       ELSE IF StartsWith(s, j, <<102, 97, 108, 115, 101>>)
       THEN ParseState("after", j + 5, st.stack, JBool(FALSE))
       ELSE IF StartsWith(s, j, <<110, 117, 108, 108>>)
       THEN ParseState("after", j + 4, st.stack, JNull)
       ELSE ParseStop

\* the value st.v has been read inside the innermost open array or object
ParseValueEnd(s, st) ==
    LET
        \* obj[key] = val: a repeated key keeps its place and takes the new value
        PutEntry(e, key, val) ==
            IF \E n \in 1..Len(e) : e[n].key = key
            THEN [n \in 1..Len(e) |-> IF e[n].key = key THEN JEntry(key, val) ELSE e[n]]
            ELSE Append(e, JEntry(key, val))
    IN
    LET top == st.stack[Len(st.stack)]
        rest == SubSeq(st.stack, 1, Len(st.stack) - 1)
        j == SkipWs(s, st.i)
        member(key) ==
            IF key.ok
            THEN ParseState("value", key.i,
                            Append(rest, [k |-> "obj",
                                          e |-> PutEntry(top.e, top.key, st.v),
                                          key |-> key.v]),
                            JNull)
            ELSE ParseStop
    IN IF j > Len(s) THEN ParseStop
       ELSE IF top.k = "arr" THEN
           (IF s[j] = 93 THEN ParseState("after", j + 1, rest, JArr(Append(top.e, st.v)))
            ELSE IF s[j] = 44
            THEN ParseState("value", j + 1,
                            Append(rest, [k |-> "arr", e |-> Append(top.e, st.v)]), JNull)
            ELSE ParseStop)
       ELSE
           (IF s[j] = 125
            THEN ParseState("after", j + 1, rest, JObj(PutEntry(top.e, top.key, st.v)))
            ELSE IF s[j] = 44
            THEN member(ParseKey(s, j + 1))
            ELSE ParseStop)

ParseStep(s, st) == IF st.mode = "value" THEN ParseValueStart(s, st)
                    ELSE ParseValueEnd(s, st)

RECURSIVE ParseRun(_, _)
ParseRun(s, st) ==
    IF st.mode = "fail" \/ (st.mode = "after" /\ st.stack = <<>>) THEN st
    ELSE ParseRun(s, ParseStep(s, st))

\* a value starting at the first non-blank at or after s[i]
ParseValue(s, i) ==
    LET result(st) == IF st.mode = "fail" THEN ParseFail ELSE Parsed(st.v, st.i)
    IN result(ParseRun(s, ParseState("value", i, <<>>, JNull)))

JSONparse(text) ==
    LET result(r) == IF r.ok /\ SkipWs(text, r.i) > Len(text) THEN Ok(r.v)
                     ELSE Throw("SyntaxError")
    IN result(ParseValue(text, 1))

(***************************************************************************)
(* decodeJWT (crypto.ts:172-193).                                          *)
(***************************************************************************)
\* JSON.parse(new TextDecoder().decode(base64url.decode(part)))
decodeJWT_part(part) ==
    LET parse(bytes) == IF bytes.kind = "error" THEN bytes
                        ELSE JSONparse(TextDecode(bytes.value))
    IN parse(base64url_decode(part))

decodeJWT(jwt) ==
    LET result(header, payload, signature) ==
            IF header.kind = "error" THEN header
            ELSE IF payload.kind = "error" THEN payload
            ELSE Ok([header |-> header.value, payload |-> payload.value,
                     signature |-> signature])
        decode(parts) ==
            IF Len(parts) # 3
            THEN Throw("Invalid JWT format. Expected 3 parts separated by dots.")
            ELSE IF parts[1] = <<>> \/ parts[2] = <<>> \/ parts[3] = <<>>
            THEN Throw("Invalid JWT format: missing parts")
            ELSE result(decodeJWT_part(parts[1]), decodeJWT_part(parts[2]), parts[3])
    IN decode(Split(jwt, 46))

(***************************************************************************)
(* base58-universal encode, as called at crypto.ts:106.                    *)
(***************************************************************************)
\* '123456789ABCDEFGHJKLMNPQRSTUVWXYZabcdefghijkmnopqrstuvwxyz'
BASE58_ALPHABET ==
    <<49, 50, 51, 52, 53, 54, 55, 56, 57,
      65, 66, 67, 68, 69, 70, 71, 72, 74, 75, 76, 77, 78, 80, 81, 82, 83, 84, 85,
      86, 87, 88, 89, 90,
      97, 98, 99, 100, 101, 102, 103, 104, 105, 106, 107, 109, 110, 111, 112, 113,
      114, 115, 116, 117, 118, 119, 120, 121, 122>>

\* one input byte carried through the little-endian digits from digits[j] on
RECURSIVE B58Step(_, _, _)
B58Step(digits, j, carry) ==
    IF j > Len(digits)
    THEN (IF carry > 0 THEN <<carry % 58>> \o B58Step(digits, j, carry \div 58)
          ELSE <<>>)
    ELSE <<(carry + digits[j] * 256) % 58>>
         \o B58Step(digits, j + 1, (carry + digits[j] * 256) \div 58)

\* the digits after the first n input bytes
RECURSIVE B58Digits(_, _)
B58Digits(input, n) ==
    IF n = 0 THEN <<0>> ELSE B58Step(B58Digits(input, n - 1), 1, input[n])

base58Encode(input) ==
    IF Len(input) = 0 THEN <<>>
    ELSE
    LET digits == B58Digits(input, Len(input))
        zeros == Scan(SubSeq(input, 1, Len(input) - 1), 1, {0}, FALSE) - 1
    IN Repeat(BASE58_ALPHABET[1], zeros)
       \o [i \in 1..Len(digits) |-> BASE58_ALPHABET[digits[Len(digits) + 1 - i] + 1]]

(***************************************************************************)
(* Key generation and DID derivation (crypto.ts:16, 51-125).               *)
(***************************************************************************)
ED25519_MULTICODEC_PREFIX == <<237, 1>>

\* the bytes a generator that is not cryptographic (Math.random) would give
WeakSeed == [i \in 1..SEED_SIZE |-> (i * 7) % 256]

\* generateRandomSeed falling back to a generator that is not cryptographic
generateRandomSeed_FallsBack(rng, entropy) ==
    IF rng = "webcrypto" THEN Ok(entropy)
    ELSE IF rng = "node" THEN Ok(entropy)
    ELSE Ok(WeakSeed)

\* rng: "webcrypto" (crypto.getRandomValues), "node" (require('crypto')),
\* "require" (a require that knows no module 'crypto' and throws) or
\* "none"; entropy: the 32 bytes the source delivers
generateRandomSeed(rng, entropy) ==
    IF rng = "webcrypto" THEN Ok(entropy)
    ELSE IF rng = "node" THEN Ok(entropy)
    ELSE IF rng = "require" THEN Throw("Cannot find module 'crypto'")
    ELSE Throw("No secure random number generator available")

\* generateKeyPair storing the seed in place of the secret key
generateKeyPair_StoresSeed(rng, entropy) ==
    LET seed == generateRandomSeed(rng, entropy) IN
    IF seed.kind = "error" THEN seed
    ELSE LET keyPair == ed25519_generateKeyPairFromSeed(seed.value)
         IN Ok([privateKey |-> fromByteArray(seed.value),
                publicKey |-> keyPair.publicKey])

generateKeyPair(rng, entropy) ==
    LET seed == generateRandomSeed(rng, entropy) IN
    IF seed.kind = "error" THEN seed
    ELSE LET keyPair == ed25519_generateKeyPairFromSeed(seed.value)
         IN Ok([privateKey |-> fromByteArray(keyPair.secretKey),
                publicKey |-> keyPair.publicKey])

\* createDidFromPublicKey leaving out the multicodec prefix
createDidFromPublicKey_NoPrefix(publicKey) ==
    Ok(<<100, 105, 100, 58, 107, 101, 121, 58, 122>> \o base58Encode(publicKey))

\* createDidFromPublicKey encoding all but the last byte of the key
createDidFromPublicKey_DropsLastByte(publicKey) ==
    Ok(<<100, 105, 100, 58, 107, 101, 121, 58, 122>> \o base58Encode(ED25519_MULTICODEC_PREFIX
                           \o SubSeq(publicKey, 1, Len(publicKey) - 1)))

createDidFromPublicKey(publicKey) ==
    LET multicodecKey == ED25519_MULTICODEC_PREFIX \o publicKey
        encoded == base58Encode(multicodecKey)
    IN Ok(<<100, 105, 100, 58, 107, 101, 121, 58, 122>> \o encoded)

generateProfileKeys(rng, entropy) ==
    LET kp == generateKeyPair(rng, entropy) IN
    IF kp.kind = "error" THEN kp
    ELSE LET did == createDidFromPublicKey(kp.value.publicKey)
         IN IF did.kind = "error" THEN did
            ELSE Ok([privateKey |-> kp.value.privateKey,
                     publicKey |-> fromByteArray(kp.value.publicKey),
                     did |-> did.value])

(***************************************************************************)
(* MockIRLBrowser (api.ts:14-78).  The profile store (core/storage) holds  *)
(* a profile [has, did, name, socials, avatar] and a private key [has, s]; *)
(* an optional field is [def, ...] with def FALSE for undefined.           *)
(***************************************************************************)
Null == [kind |-> "null", value |-> <<>>, error |-> ""]

NoProfile == [has |-> FALSE, did |-> <<>>, name |-> <<>>,
              socials |-> [def |-> FALSE, v |-> <<>>],
              avatar |-> [def |-> FALSE, s |-> <<>>]]

NoPrivateKey == [has |-> FALSE, s |-> <<>>]

NO_PROFILE_ERROR == "No profile found. User must create a profile first."

\* the payload with an expiry window of 60 seconds
JWTPayload_ShortWindow(p, t, org, type, data) ==
    JObj(<<JEntry(<<105, 115, 115>>, JStr(p.did)),
           JEntry(<<97, 117, 100>>, JStr(org)),
           JEntry(<<105, 97, 116>>, JNum(t)),
           JEntry(<<101, 120, 112>>, JNum(t + 60)),
           JEntry(<<116, 121, 112, 101>>, JStr(type)),
           JEntry(<<100, 97, 116, 97>>, data)>>)

\* the claims common to both payloads: iss, aud, iat, exp, type, data
JWTPayload(p, t, org, type, data) ==
    JObj(<<JEntry(<<105, 115, 115>>, JStr(p.did)),
           JEntry(<<97, 117, 100>>, JStr(org)),
           JEntry(<<105, 97, 116>>, JNum(t)),
           JEntry(<<101, 120, 112>>, JNum(t + 120)),
           JEntry(<<116, 121, 112, 101>>, JStr(type)),
           JEntry(<<100, 97, 116, 97>>, data)>>)

\* 'irl:profile:details'; socials: profile.socials || []
ProfileDetailsPayload(p, t, org) ==
    LET
        SocialLinkJSON(l) ==
            JObj(<<JEntry(<<112, 108, 97, 116, 102, 111, 114, 109>>, JStr(l.platform)),
                   JEntry(<<104, 97, 110, 100, 108, 101>>, JStr(l.handle))>>)
    IN
    JWTPayload(p, t, org,
        <<105, 114, 108, 58, 112, 114, 111, 102, 105, 108, 101, 58,
          100, 101, 116, 97, 105, 108, 115>>,
        JObj(<<JEntry(<<100, 105, 100>>, JStr(p.did)),
               JEntry(<<110, 97, 109, 101>>, JStr(p.name)),
               JEntry(<<115, 111, 99, 105, 97, 108, 115>>,
                      JArr([i \in 1..Len(p.socials.v) |->
                               SocialLinkJSON(p.socials.v[i])]))>>))

\* the avatar payload carrying the display name as well
AvatarPayload_WithName(p, t, org) ==
    JWTPayload(p, t, org, <<105, 114, 108, 58, 97, 118, 97, 116, 97, 114>>,
        JObj(<<JEntry(<<100, 105, 100>>, JStr(p.did)),
               JEntry(<<110, 97, 109, 101>>, JStr(p.name)),
               JEntry(<<97, 118, 97, 116, 97, 114>>, JStr(p.avatar.s))>>))

\* 'irl:avatar'
AvatarPayload(p, t, org) ==
    JWTPayload(p, t, org, <<105, 114, 108, 58, 97, 118, 97, 116, 97, 114>>,
        JObj(<<JEntry(<<100, 105, 100>>, JStr(p.did)),
               JEntry(<<97, 118, 97, 116, 97, 114>>, JStr(p.avatar.s))>>))

\* getProfileDetails adding the stored private key to the payload
getProfileDetails_KeyInPayload(p, k, t, org) ==
    IF ~p.has \/ ~k.has \/ k.s = <<>> THEN Throw(NO_PROFILE_ERROR)
    ELSE createJWT(JObj(ProfileDetailsPayload(p, t, org).e
                        \o <<JEntry(<<107, 101, 121>>, JStr(k.s))>>), k.s)

\* getProfileDetails testing the profile alone
getProfileDetails_ProfileOnly(p, k, t, org) ==
    IF ~p.has THEN Throw(NO_PROFILE_ERROR)
    ELSE createJWT(ProfileDetailsPayload(p, t, org), k.s)

getProfileDetails(p, k, t, org) ==
    IF ~p.has \/ ~k.has \/ k.s = <<>> THEN Throw(NO_PROFILE_ERROR)
    ELSE createJWT(ProfileDetailsPayload(p, t, org), k.s)

\* getAvatar testing the avatar before the identity
getAvatar_AvatarFirst(p, k, t, org) ==
    IF ~p.avatar.def \/ p.avatar.s = <<>> THEN Null
    ELSE IF ~p.has \/ ~k.has \/ k.s = <<>> THEN Throw(NO_PROFILE_ERROR)
    ELSE createJWT(AvatarPayload(p, t, org), k.s)

getAvatar(p, k, t, org) ==
    IF ~p.has \/ ~k.has \/ k.s = <<>> THEN Throw(NO_PROFILE_ERROR)
    ELSE IF ~p.avatar.def \/ p.avatar.s = <<>> THEN Null
    ELSE createJWT(AvatarPayload(p, t, org), k.s)

(***************************************************************************)
(* Inputs of the model.                                                    *)
(***************************************************************************)
Seed(k) == [i \in 1..SEED_SIZE |-> (k * 37 + i * 11) % 256]

KeyPairOf == [k \in 1..MaxSeed |-> ed25519_generateKeyPairFromSeed(Seed(k))]

\* what generateProfileKeys returns when the random source delivers Seed(k)
ProfileKeysOf == [k \in 1..MaxSeed |-> generateProfileKeys("webcrypto", Seed(k)).value]

\* payloads handed to createJWT: {"iat":1000,"exp":1120} and ["x",n]
Payload(n) ==
    IF n = 1 THEN JObj(<<JEntry(<<105, 97, 116>>, JNum(1000)),
                         JEntry(<<101, 120, 112>>, JNum(1120))>>)
    ELSE JArr(<<JStr(<<120>>), JNum(n)>>)

KeyStrings ==
    LET
        \* private keys handed to createJWT: the secret keys of the key pairs and
        \* strings that decode to 0, 32, 63 and 66 bytes or do not decode at all
        BadKeyStrings ==
            { <<>>,
              fromByteArray(Seed(1)),
              fromByteArray(SubSeq(KeyPairOf[1].secretKey, 1, 63)),
              fromByteArray(KeyPairOf[1].secretKey \o <<1, 2>>),
              <<65, 65, 65>> }
    IN
              {ProfileKeysOf[k].privateKey : k \in 1..MaxSeed} \cup BadKeyStrings

\* public keys handed to verifyJWT: those of the key pairs, a 32-byte key of
\* no key pair of the model, and keys of 0 and 31 bytes
PublicKeys ==
    {KeyPairOf[k].publicKey : k \in 1..MaxSeed}
    \cup { [i \in 1..32 |-> 9], <<>>, SubSeq(KeyPairOf[1].publicKey, 1, 31) }

\* public keys handed to createDidFromPublicKey: those of the key pairs,
\* 32-byte keys that differ from the first in the last byte or the first
\* byte alone, the keys of 32 zero and of 32 0xFF bytes, and keys of 0, 31
\* and 33 bytes
DidKeys ==
    {KeyPairOf[k].publicKey : k \in 1..MaxSeed}
    \cup { [KeyPairOf[1].publicKey EXCEPT ![32] = (@ + 1) % 256],
           [KeyPairOf[1].publicKey EXCEPT ![1] = (@ + 128) % 256],
           [i \in 1..32 |-> 0],
           [i \in 1..32 |-> 255],
           <<>>, SubSeq(KeyPairOf[1].publicKey, 1, 31),
           KeyPairOf[1].publicKey \o <<0>> }

\* base64url of the signature of key pair k over the string input
SignatureB64(k, input) ==
    base64url_encode(ed25519_sign(KeyPairOf[k].secretKey, TextEncode(input)))

\* strings a caller may hand to decodeJWT and verifyJWT that createJWT did
\* not produce
PresentedStrings ==
    LET
        \* an assertion of another issuer: header {"alg":"none","typ":"JWS"},
        \* payload {"sub":"x"}, and the signature of key pair 1 over the two
        AltHeaderToken ==
            <<101, 121, 74, 104, 98, 71, 99, 105, 79, 105, 74, 117, 98, 50, 53, 108, 73, 105, 119, 105, 100, 72, 108, 119, 73, 106, 111, 105, 83, 108, 100, 84, 73, 110, 48, 46, 101, 121, 74, 122, 100, 87, 73, 105, 79, 105, 74, 52, 73, 110, 48>> \o <<46>>
            \o SignatureB64(1, <<101, 121, 74, 104, 98, 71, 99, 105, 79, 105, 74, 117, 98, 50, 53, 108, 73, 105, 119, 105, 100, 72, 108, 119, 73, 106, 111, 105, 83, 108, 100, 84, 73, 110, 48, 46, 101, 121, 74, 122, 100, 87, 73, 105, 79, 105, 74, 52, 73, 110, 48>>)
    IN
    LET
        HeaderB64 == base64url_encode(TextEncode(JSONstringify(JWT_HEADER)))
    IN
    { <<>>,                                                   \* ''
      <<97, 98, 99>>,                                         \* 'abc'
      <<97, 46, 98>>,                                         \* 'a.b'
      <<97, 46, 98, 46, 99, 46, 100>>,                        \* 'a.b.c.d'
      <<46, 46>>,                                             \* '..'
      <<77, 65, 46, 77, 65, 46>>,                             \* 'MA.MA.'
      \* '<header>..<signature over "<header>.">'
      HeaderB64 \o <<46, 46>> \o SignatureB64(1, HeaderB64 \o <<46>>),
      \* '.MA.<signature over ".MA">'
      <<46, 77, 65, 46>> \o SignatureB64(1, <<46, 77, 65>>),
      \* '<header>.MA.@@@'
      HeaderB64 \o <<46, 77, 65, 46, 64, 64, 64>>,
      \* '<header>.MA.AAAAA' (a signature segment of impossible length)
      HeaderB64 \o <<46, 77, 65, 46, 65, 65, 65, 65, 65>>,
      <<77, 64, 46, 77, 65, 46, 65, 65, 65, 65>>,             \* 'M@.MA.AAAA'
      <<77, 46, 77, 65, 46, 65, 65, 65, 65>>,                 \* 'M.MA.AAAA'
      <<61, 46, 77, 65, 46, 65, 65, 65, 65>>,                 \* '=.MA.AAAA'
      <<77, 65, 46, 77, 65, 46, 61>>,                         \* 'MA.MA.='
      <<77, 65, 46, 89, 87, 74, 106, 46, 65, 65, 65, 65>>,    \* 'MA.YWJj.AAAA'
      <<101, 51, 48, 46, 77, 65, 46, 65, 65, 65, 65>>,        \* 'e30.MA.AAAA'
      \* header {"alg":"none","typ":"JWS"}, payload {"sub":"x"}, signed by
      \* key pair 1 over its own first two segments
      AltHeaderToken }

(***************************************************************************)
(* The signer and verifier on one assertion: createJWT or a caller         *)
(* supplies the string, one bit of it may be flipped on the way, and       *)
(* verifyJWT and decodeJWT are applied to what arrives.                    *)
(***************************************************************************)
NoRet == [op |-> "none", arg |-> <<>>, out |-> Null]

\* origins the page may be served from: 'https://a.example' and
\* 'http://localhost:5173'
Origins ==
    { <<104, 116, 116, 112, 115, 58, 47, 47, 97, 46, 101, 120, 97, 109, 112, 108, 101>>,
      <<104, 116, 116, 112, 58, 47, 47, 108, 111, 99, 97, 108, 104, 111, 115, 116, 58, 53, 49, 55, 51>> }

MaxHooks == 2     \* useIrlOnboarding instances mounted over the life of the page
MaxObjects == 2   \* API objects constructed over the life of the page

\* the value undefined, and the API objects: a MockIRLBrowser ("mock") or the
\* object a native host assigns ("native"), told apart by id
Undefined == [kind |-> "undefined", id |-> 0]

\* a browser's global object before anything touched window.irlBrowser.
\* prop is the kind of the own property irlBrowser: "absent", a "data"
\* property holding value, or the "accessor" that hook instance owner
\* defined, whose closure holds value.
BrowserWindow == [defined |-> TRUE, prop |-> "absent", value |-> Undefined, owner |-> 0]

\* a useIrlOnboarding instance that has not rendered yet.  isMounted is the
\* variable of its effect's closure; apiAtMount records whether an API was
\* available when its effect ran.
IdleHook ==
    LET
        \* useState's initial value in useIrlOnboarding
        InitialHookState == [shouldShowOnboarding |-> TRUE, profile |-> NoProfile, isLoading |-> TRUE]
    IN
            [status |-> "idle", isMounted |-> FALSE, apiAtMount |-> FALSE,
             state |-> InitialHookState]

\* the IrlOnboarding component before it is rendered
NoOnboarding == [mounted |-> FALSE, mode |-> "choice", selectedMode |-> "null"]

\* the platforms SocialsStep shows: primaryPlatforms, then additionalPlatforms
allPlatforms ==
    << "INSTAGRAM", "X", "BLUESKY", "LINKEDIN", "YOUTUBE", "SPOTIFY", "TIKTOK",
       "SNAPCHAT", "GITHUB", "FACEBOOK", "REDDIT", "DISCORD", "TWITCH",
       "TELEGRAM", "PINTEREST", "TUMBLR", "SOUNDCLOUD", "BANDCAMP", "PATREON",
       "KO_FI", "MASTODON", "WEBSITE", "EMAIL" >>

Platforms == { allPlatforms[i] : i \in 1..Len(allPlatforms) }

\* onNext has not been called
NotSubmitted == [called |-> FALSE, socials |-> <<>>]

\* no avatar (null), and AvatarStep with no initialValue; file is the
\* selection being processed
NoAvatar == [has |-> FALSE, url |-> <<>>]
NoFile == [type |-> "", size |-> 0, outcome |-> ""]
InitCore ==
    LET
        InitialAvatarStep == [avatar |-> NoAvatar, isProcessing |-> FALSE, error |-> "",
                              file |-> NoFile]
    IN
    LET
        \* SocialsStep's inputs with no initialValue: every value '', every error
        \* null (written "")
        EmptyInputs == [p \in Platforms |-> [value |-> <<>>, error |-> ""]]
    IN
    /\ token = <<>>
    /\ tokenOrig = <<>>
    /\ tokenSeed = 0
    /\ ret = NoRet
    /\ profile = NoProfile
    /\ privateKey = NoPrivateKey
    /\ now = 1000
    /\ origin \in { <<104, 116, 116, 112, 115, 58, 47, 47, 97, 46, 101, 120, 97,
                      109, 112, 108, 101>> }
    /\ apiObjects = 0
    /\ hooks = [h \in 1..MaxHooks |-> IdleHook]
    /\ onboarding = NoOnboarding
    /\ socialInputs = EmptyInputs
    /\ submitted = NotSubmitted
    /\ avatarStep = InitialAvatarStep

\* the state of a page in a browser
Init ==
    /\ InitCore
    /\ window = BrowserWindow

\* the state of the package wherever it is loaded: a browser, or a host
\* without a window
InitPage ==
    LET
        \* a host where typeof window === 'undefined'
        NoWindow == [defined |-> FALSE, prop |-> "absent", value |-> Undefined, owner |-> 0]
    IN
    /\ InitCore
    /\ window \in {BrowserWindow, NoWindow}

store == <<profile, privateKey, now, origin>>
wire == <<token, tokenOrig, tokenSeed>>
page == <<window, apiObjects, hooks, onboarding>>
form == <<socialInputs, submitted, avatarStep>>
ui == <<page, form>>

CallCreateJWT(n, key) ==
    LET
        \* index of the key pair whose secret key the string key encodes, 0 if none
        SeedOfKeyString(key0) ==
            IF \E k \in 1..MaxSeed : ProfileKeysOf[k].privateKey = key0
            THEN CHOOSE k \in 1..MaxSeed : ProfileKeysOf[k].privateKey = key0
            ELSE 0
    IN
    /\ token = <<>>
    /\ ret.op = "none"
    /\ LET out == createJWT(Payload(n), key) IN
       /\ ret' = [op |-> "createJWT", arg |-> [payload |-> n, key |-> key], out |-> out]
       /\ token' = IF out.kind = "ok" THEN out.value ELSE <<>>
       /\ tokenOrig' = IF out.kind = "ok" THEN out.value ELSE <<>>
       /\ tokenSeed' = IF out.kind = "ok" THEN SeedOfKeyString(key) ELSE 0
    /\ UNCHANGED <<store, ui>>

\* a caller hands in a string of its own
Present(jwt) ==
    /\ token = <<>>
    /\ ret.op = "none"
    /\ token' = jwt
    /\ tokenOrig' = <<>>
    /\ tokenSeed' = 0
    /\ ret' = [op |-> "present", arg |-> <<>>, out |-> Null]
    /\ UNCHANGED <<store, ui>>

\* one bit of one character of the assertion is flipped on the way; the two
\* dots that separate the segments are not part of any segment
Tamper ==
    LET
        FlipBit(c, b) == IF (c \div (2 ^ b)) % 2 = 1 THEN c - (2 ^ b) ELSE c + (2 ^ b)
    IN
    /\ tokenOrig # <<>>
    /\ token = tokenOrig
    /\ ret.op = "createJWT"
    /\ \E i \in 1..Len(token), b \in 0..7 :
          /\ token[i] # 46
          /\ token' = [token EXCEPT ![i] = FlipBit(token[i], b)]
    /\ UNCHANGED <<ui, tokenOrig, tokenSeed, ret, store>>

CallVerifyJWT(publicKey, und) ==
    /\ ret.op \in {"createJWT", "present"}
    /\ ret.out.kind # "error"
    /\ ret' = [op |-> "verifyJWT", arg |-> [jwt |-> token, publicKey |-> publicKey],
               out |-> verifyJWT(token, publicKey, und)]
    /\ UNCHANGED <<ui, wire, store>>

CallDecodeJWT ==
    /\ ret.op \in {"createJWT", "present"}
    /\ ret.out.kind # "error"
    /\ ret' = [op |-> "decodeJWT", arg |-> [jwt |-> token], out |-> decodeJWT(token)]
    /\ UNCHANGED <<ui, wire, store>>

\* host environments: which random source generateRandomSeed finds
Hosts == {"webcrypto", "node", "require", "none"}

\* generateProfileKeys() on host rng whose random source delivers Seed(k)
CallGenerateProfileKeys(rng, k) ==
    /\ token = <<>>
    /\ ret.op = "none"
    /\ ret' = [op |-> "generateProfileKeys", arg |-> [rng |-> rng, entropy |-> Seed(k)],
               out |-> generateProfileKeys(rng, Seed(k))]
    /\ UNCHANGED <<ui, wire, store>>

\* byte sequences handed to base64url.encode: every single byte, and every
\* sequence over ByteSamples of length 0..MaxBytes
ByteSequences ==
    LET
        \* bytes out of which the sequences handed to base64url are made: 0xFB and
        \* 0xFF give the characters '+' and '/' of standard base64
        ByteSamples == {0, 1, 62, 251, 255}
    IN
    { <<x>> : x \in 0..255 }
    \cup UNION { [1..n -> ByteSamples] : n \in 0..MaxBytes }

\* base64url.decode(base64url.encode(bytes))
CallBase64url(bytes) ==
    /\ token = <<>>
    /\ ret.op = "none"
    /\ ret' = [op |-> "base64url",
               arg |-> [bytes |-> bytes, encoded |-> base64url_encode(bytes)],
               out |-> base64url_decode(base64url_encode(bytes))]
    /\ UNCHANGED <<ui, wire, store>>

CallCreateDid(publicKey) ==
    /\ token = <<>>
    /\ ret.op = "none"
    /\ ret' = [op |-> "createDidFromPublicKey", arg |-> [publicKey |-> publicKey],
               out |-> createDidFromPublicKey(publicKey)]
    /\ UNCHANGED <<ui, wire, store>>

NextJWT ==
    \/ \E n \in 1..MaxPayload, key \in KeyStrings : CallCreateJWT(n, key)
    \/ \E jwt \in PresentedStrings : Present(jwt)
    \/ Tamper
    \/ \E publicKey \in PublicKeys :
          \E und \in (IF Len(publicKey) = PUBLIC_KEY_LENGTH THEN {Ok(FALSE)}
                      ELSE UndefinedVerify) : CallVerifyJWT(publicKey, und)
    \/ CallDecodeJWT
    \/ \E publicKey \in DidKeys : CallCreateDid(publicKey)
    \/ \E rng \in Hosts, k \in 1..MaxSeed : CallGenerateProfileKeys(rng, k)
    \/ \E bytes \in ByteSequences : CallBase64url(bytes)

SpecJWT == Init /\ [][NextJWT]_vars

(***************************************************************************)
(* Properties of the signer and verifier, checked under SpecJWT.           *)
(***************************************************************************)
\* the last call was verifyJWT on the string createJWT returned, unaltered
VerifiedOriginal ==
    /\ ret.op = "verifyJWT"
    /\ tokenOrig # <<>>
    /\ tokenSeed # 0
    /\ ret.arg.jwt = tokenOrig

\* the last call was verifyJWT on that string with one bit flipped
VerifiedTampered ==
    /\ ret.op = "verifyJWT"
    /\ tokenOrig # <<>>
    /\ tokenSeed # 0
    /\ ret.arg.jwt # tokenOrig

\* C1: round trip. verifyJWT(createJWT(payload, sk), pk) is true when sk and
\* pk are the two halves of one key pair, for every payload.
RoundTrip ==
    (VerifiedOriginal /\ ret.arg.publicKey = KeyPairOf[tokenSeed].publicKey)
        => ret.out = Ok(TRUE)

RoundTripWitness ==
    /\ VerifiedOriginal
    /\ ret.arg.publicKey = KeyPairOf[tokenSeed].publicKey
    /\ ret.out = Ok(TRUE)

\* C2: tamper sensitivity. An assertion of createJWT with any single bit of
\* its header, payload or signature segment flipped is rejected by verifyJWT
\* under the public key of the signer.
TamperSensitivity ==
    (VerifiedTampered /\ ret.arg.publicKey = KeyPairOf[tokenSeed].publicKey)
        => ret.out = Ok(FALSE)

\* C3: cross-key rejection. verifyJWT rejects an assertion of createJWT under
\* every public key other than the one paired with the signing key.
CrossKeyRejection ==
    (/\ VerifiedOriginal
     /\ Len(ret.arg.publicKey) = PUBLIC_KEY_LENGTH
     /\ ret.arg.publicKey # KeyPairOf[tokenSeed].publicKey)
        => ret.out = Ok(FALSE)

CrossKeyWitness ==
    /\ VerifiedOriginal
    /\ \E k \in 1..MaxSeed : k # tokenSeed /\ ret.arg.publicKey = KeyPairOf[k].publicKey
    /\ ret.out = Ok(FALSE)

\* exactly three non-empty segments between dots
ThreeNonEmptySegments(jwt) ==
    LET parts == Split(jwt, 46) IN
    Len(parts) = 3 /\ \A k \in 1..3 : parts[k] # <<>>

\* C4: format rejection. On a string that does not split on '.' into exactly
\* three non-empty segments verifyJWT returns false (stated for the 32-byte
\* public keys) and decodeJWT fails.
FormatRejection ==
    /\ (/\ ret.op = "verifyJWT"
        /\ Len(ret.arg.publicKey) = PUBLIC_KEY_LENGTH
        /\ ~ThreeNonEmptySegments(ret.arg.jwt))
          => ret.out = Ok(FALSE)
    /\ (ret.op = "decodeJWT" /\ ~ThreeNonEmptySegments(ret.arg.jwt))
          => ret.out.kind = "error"

\* the signature segment of jwt does not decode, or not to 64 bytes
BadSignatureSegment(jwt) ==
    LET parts == Split(jwt, 46) IN
    /\ Len(parts) = 3
    /\ LET sig == base64url_decode(parts[3]) IN
       sig.kind = "error" \/ Len(sig.value) # SIGNATURE_LENGTH

\* C5: verifyJWT is total. On every string and every public-key byte array
\* it returns a boolean and never raises; a signature segment that does not
\* decode or is not 64 bytes long yields false.
VerifyTotal ==
    ret.op = "verifyJWT" =>
        /\ ret.out.kind = "ok"
        /\ ret.out.value \in BOOLEAN
        /\ BadSignatureSegment(ret.arg.jwt) => ret.out.value = FALSE

VerifyTotalWitness ==
    /\ ret.op = "verifyJWT"
    /\ Len(ret.arg.publicKey) # PUBLIC_KEY_LENGTH
    /\ Len(Split(ret.arg.jwt, 46)) = 3
    /\ base64url_decode(Split(ret.arg.jwt, 46)[3]).kind = "error"
    /\ ret.out = Ok(FALSE)

\* RFC 4648 base64url without padding: the alphabet A-Z a-z 0-9 - _ and a
\* length that some byte string encodes to
IsBase64Url(seg) ==
    /\ \A i \in 1..Len(seg) :
          \/ seg[i] \in 65..90
          \/ seg[i] \in 97..122
          \/ seg[i] \in 48..57
          \/ seg[i] \in {45, 95}
    /\ Len(seg) % 4 # 1

\* a three-segment string one of whose segments is not base64url, or whose
\* header or payload segment is base64url of something that is not JSON
MalformedSegment(jwt) ==
    LET parts == Split(jwt, 46) IN
    /\ Len(parts) = 3
    /\ \/ \E k \in 1..3 : ~IsBase64Url(parts[k])
       \/ \E k \in 1..2 :
             /\ IsBase64Url(parts[k])
             /\ JSONparse(TextDecode(base64url_decode(parts[k]).value)).kind = "error"

\* C6: decodeJWT fails whenever the header, payload or signature segment
\* fails base64url decoding or the header or payload fails JSON decoding.
DecodeRejectsMalformed ==
    (ret.op = "decodeJWT" /\ MalformedSegment(ret.arg.jwt)) => ret.out.kind = "error"

INVALID_KEY_LENGTH_ERROR == "Invalid private key length. Expected 64 bytes."

\* the string key decodes, and not to 64 bytes
WrongLengthKey(key) ==
    toByteArray(key).kind = "ok" /\ Len(toByteArray(key).value) # SECRET_KEY_LENGTH

\* C7: createJWT fails with the invalid-key-length error and produces no
\* assertion whenever the decoded secret key is not exactly 64 bytes.
CreateRejectsWrongKeyLength ==
    (ret.op = "createJWT" /\ WrongLengthKey(ret.arg.key))
        => /\ ret.out = Throw(INVALID_KEY_LENGTH_ERROR)
           /\ token = <<>>

CreateRejectsWitness ==
    /\ ret.op = "createJWT"
    /\ ret.arg.key = <<>>
    /\ ret.out = Throw(INVALID_KEY_LENGTH_ERROR)

\* C8: DID derivation rejects every public key that is not 32 bytes long
\* with an error and returns no DID for it.
DidRejectsWrongKeyLength ==
    (ret.op = "createDidFromPublicKey" /\ Len(ret.arg.publicKey) # PUBLIC_KEY_LENGTH)
        => ret.out.kind = "error"

(***************************************************************************)
(* The issuance facade on the profile store.  core/storage and             *)
(* core/profile write the store; MockIRLBrowser reads it.                  *)
(***************************************************************************)
Names == { <<65, 108>> }                                      \* 'Al'

\* profile.socials: undefined, or [{platform: 'X', handle: 'al'}]
SocialsValues ==
    { [def |-> FALSE, v |-> <<>>],
      [def |-> TRUE, v |-> <<[platform |-> <<88>>, handle |-> <<97, 108>>]>>] }

\* profile.avatar: undefined, '' or 'data:,x'
AvatarValues ==
    { [def |-> FALSE, s |-> <<>>],
      [def |-> TRUE, s |-> <<>>],
      [def |-> TRUE, s |-> <<100, 97, 116, 97, 58, 44, 120>>] }

\* strings savePrivateKey is given: the private keys of the key pairs, ''
\* and a string that decodes to 32 bytes
StoredKeyStrings ==
    {ProfileKeysOf[k].privateKey : k \in 1..MaxSeed}
    \cup { <<>>, fromByteArray(Seed(1)) }

\* storage.saveProfile(profile)
SaveProfile(k, name, socials, avatar) ==
    /\ profile' = [has |-> TRUE, did |-> ProfileKeysOf[k].did, name |-> name,
                   socials |-> socials, avatar |-> avatar]
    /\ ret' = NoRet
    /\ UNCHANGED <<ui, privateKey, now, origin, wire>>

\* storage.savePrivateKey(key)
SavePrivateKey(key) ==
    /\ privateKey' = [has |-> TRUE, s |-> key]
    /\ ret' = NoRet
    /\ UNCHANGED <<ui, profile, now, origin, wire>>

\* profile.createProfile(name, socials, avatar): generateProfileKeys, then
\* saveProfile and savePrivateKey
CreateProfile(k, name, socials, avatar) ==
    /\ profile' = [has |-> TRUE, did |-> ProfileKeysOf[k].did, name |-> name,
                   socials |-> socials, avatar |-> avatar]
    /\ privateKey' = [has |-> TRUE, s |-> ProfileKeysOf[k].privateKey]
    /\ ret' = NoRet
    /\ UNCHANGED <<ui, now, origin, wire>>

\* storage.clearProfile()
ClearProfile ==
    /\ profile.has \/ privateKey.has
    /\ profile' = NoProfile
    /\ privateKey' = NoPrivateKey
    /\ ret' = NoRet
    /\ UNCHANGED <<ui, now, origin, wire>>

Tick ==
    /\ now < 1000 + MaxNow
    /\ now' = now + 1
    /\ UNCHANGED <<ui, profile, privateKey, origin, ret, wire>>

Snapshot == [profile |-> profile, privateKey |-> privateKey, now |-> now,
             origin |-> origin]

\* the page asks for its credentials before it hands one to a verifier
CallGetProfileDetails ==
    /\ ret.op \notin {"verifyJWT", "decodeJWT"}
    /\ ret' = [op |-> "getProfileDetails", arg |-> Snapshot,
               out |-> getProfileDetails(profile, privateKey, now, origin)]
    /\ UNCHANGED <<ui, store, wire>>

\* getAvatar removing the stored private key once it has answered
CallGetAvatar_DropsKey ==
    /\ ret.op \notin {"verifyJWT", "decodeJWT"}
    /\ ret' = [op |-> "getAvatar", arg |-> Snapshot,
               out |-> getAvatar(profile, privateKey, now, origin)]
    /\ privateKey' = NoPrivateKey
    /\ UNCHANGED <<ui, profile, now, origin, wire>>

CallGetAvatar ==
    /\ ret.op \notin {"verifyJWT", "decodeJWT"}
    /\ ret' = [op |-> "getAvatar", arg |-> Snapshot,
               out |-> getAvatar(profile, privateKey, now, origin)]
    /\ UNCHANGED <<ui, store, wire>>

\* the page is opened on another origin
Navigate(org) ==
    /\ org # origin
    /\ origin' = org
    /\ ret' = NoRet
    /\ UNCHANGED <<ui, profile, privateKey, now, wire>>

\* the clock moves past the expiry (iat + 120) of every assertion issued so
\* far
Elapse ==
    /\ now <= 1000 + MaxNow
    /\ now' = 1000 + MaxNow + 121
    /\ UNCHANGED <<ui, profile, privateKey, origin, ret, wire>>

\* a verifier that received the assertion just issued calls verifyJWT on it
\* with the public key that the DID of the issuing profile stands for
CallVerifyIssued(publicKey) ==
    /\ ret.op \in {"getProfileDetails", "getAvatar"}
    /\ ret.out.kind = "ok"
    /\ createDidFromPublicKey(publicKey).value = ret.arg.profile.did
    /\ ret' = [op |-> "verifyJWT",
               arg |-> [jwt |-> ret.out.value, publicKey |-> publicKey,
                        call |-> ret.op, issued |-> ret.arg, at |-> now],
               out |-> verifyJWT(ret.out.value, publicKey, Ok(FALSE))]
    /\ UNCHANGED <<ui, store, wire>>

\* a verifier that received the assertion just issued calls decodeJWT on it
CallDecodeIssued ==
    /\ ret.op \in {"getProfileDetails", "getAvatar"}
    /\ ret.out.kind = "ok"
    /\ ret' = [op |-> "decodeJWT",
               arg |-> [jwt |-> ret.out.value, call |-> ret.op, issued |-> ret.arg],
               out |-> decodeJWT(ret.out.value)]
    /\ UNCHANGED <<ui, store, wire>>

Next ==
    \/ \E k \in 1..MaxSeed, name \in Names, socials \in SocialsValues,
          avatar \in AvatarValues : SaveProfile(k, name, socials, avatar)
    \/ \E key \in StoredKeyStrings : SavePrivateKey(key)
    \/ \E k \in 1..MaxSeed, name \in Names, socials \in SocialsValues,
          avatar \in AvatarValues : CreateProfile(k, name, socials, avatar)
    \/ ClearProfile
    \/ Tick
    \/ CallGetProfileDetails
    \/ CallGetAvatar
    \/ \E org \in Origins : Navigate(org)
    \/ Elapse
    \/ \E k \in 1..MaxSeed : CallVerifyIssued(KeyPairOf[k].publicKey)
    \/ CallDecodeIssued

Spec == Init /\ [][Next]_vars

(***************************************************************************)
(* Properties of the issuance facade, checked under Spec.                  *)
(***************************************************************************)
Issued == ret.op \in {"getProfileDetails", "getAvatar"}

\* C9: getProfileDetails and getAvatar fail with the no-identity error, and
\* return neither an assertion nor null, whenever the store has no profile
\* or no private key at the time of the call.
NoIdentityError ==
    (Issued /\ (~ret.arg.profile.has \/ ~ret.arg.privateKey.has))
        => ret.out = Throw(NO_PROFILE_ERROR)

NoIdentityWitness ==
    /\ ret.op = "getAvatar"
    /\ ret.arg.profile.has
    /\ ~ret.arg.privateKey.has
    /\ ret.out = Throw(NO_PROFILE_ERROR)

\* a persisted identity: a profile and a 64-byte secret key
PersistedIdentity(p, k) ==
    /\ p.has
    /\ k.has
    /\ toByteArray(k.s).kind = "ok"
    /\ Len(toByteArray(k.s).value) = SECRET_KEY_LENGTH

AvatarSet(p) == p.avatar.def /\ p.avatar.s # <<>>

\* the outcome is an assertion whose payload has the given type
AssertionOfType(out, type) ==
    /\ out.kind = "ok"
    /\ LET typed(decoded) ==
               /\ decoded.kind = "ok"
               /\ \E i \in 1..Len(decoded.value.payload.e) :
                     decoded.value.payload.e[i]
                         = JEntry(<<116, 121, 112, 101>>, JStr(type))
       IN typed(decodeJWT(out.value))

\* C10: with a persisted identity getAvatar returns null exactly when the
\* profile has no avatar set and otherwise a signed assertion of type
\* 'irl:avatar' that verifies under the identity's key; without an identity
\* the outcome is the error, never null.
AvatarNullIffUnset ==
    ret.op = "getAvatar" =>
        /\ PersistedIdentity(ret.arg.profile, ret.arg.privateKey) =>
              /\ (ret.out = Null) = ~AvatarSet(ret.arg.profile)
              /\ AvatarSet(ret.arg.profile) =>
                    /\ AssertionOfType(ret.out, <<105, 114, 108, 58, 97, 118, 97, 116, 97, 114>>)
                    /\ verifyJWT(ret.out.value,
                                 SubSeq(toByteArray(ret.arg.privateKey.s).value, 33, 64),
                                 Ok(FALSE)) = Ok(TRUE)
        /\ (~ret.arg.profile.has \/ ~ret.arg.privateKey.has) => ret.out # Null

AvatarNullWitness ==
    /\ ret.op = "getAvatar"
    /\ PersistedIdentity(ret.arg.profile, ret.arg.privateKey)
    /\ ~AvatarSet(ret.arg.profile)
    /\ ret.arg.profile.avatar.def
    /\ ret.out = Null

\* the last call was decodeJWT on an assertion the facade issued
DecodedIssued == ret.op = "decodeJWT" /\ "issued" \in DOMAIN ret.arg

\* the value of member key of the JSON object obj
Member(obj, key) ==
    IF obj.k = "obj" /\ \E i \in 1..Len(obj.e) : obj.e[i].key = key
    THEN obj.e[CHOOSE i \in 1..Len(obj.e) : obj.e[i].key = key].val
    ELSE [k |-> "undefined"]

\* the member names of the JSON object obj, in order
MemberNames(obj) == [i \in 1..Len(obj.e) |-> obj.e[i].key]

\* C11: every payload built by getProfileDetails or getAvatar has iat equal
\* to the unix time in whole seconds at the call and exp = iat + 120, hence
\* exp > iat; nothing but the clock enters the window.
ExpiryWindow ==
    DecodedIssued =>
        /\ ret.out.kind = "ok"
        /\ Member(ret.out.value.payload, <<105, 97, 116>>) = JNum(ret.arg.issued.now)
        /\ Member(ret.out.value.payload, <<101, 120, 112>>) = JNum(ret.arg.issued.now + 120)
        /\ Member(ret.out.value.payload, <<101, 120, 112>>).n
              > Member(ret.out.value.payload, <<105, 97, 116>>).n

ExpiryWindowWitness ==
    /\ DecodedIssued
    /\ ret.arg.call = "getAvatar"
    /\ ret.arg.issued.now = 1001
    /\ Member(ret.out.value.payload, <<105, 97, 116>>) = JNum(1001)
    /\ Member(ret.out.value.payload, <<101, 120, 112>>) = JNum(1121)

\* the JSON of profile.socials || []
SocialsJSON(p) ==
    JArr([i \in 1..Len(p.socials.v) |->
             JObj(<<JEntry(<<112, 108, 97, 116, 102, 111, 114, 109>>, JStr(p.socials.v[i].platform)),
                    JEntry(<<104, 97, 110, 100, 108, 101>>, JStr(p.socials.v[i].handle))>>)])

\* C12: every payload issued has iss equal to the DID of the stored profile,
\* data.did equal to iss, aud equal to the requesting origin, and the type
\* of the operation: 'irl:profile:details' with data of did, name and
\* socials, or 'irl:avatar' with data of did and avatar, and nothing else.
PayloadFields ==
    DecodedIssued =>
        /\ ret.out.kind = "ok"
        /\ Member(ret.out.value.payload, <<105, 115, 115>>) = JStr(ret.arg.issued.profile.did)
        /\ Member(ret.out.value.payload, <<97, 117, 100>>) = JStr(ret.arg.issued.origin)
        /\ Member(Member(ret.out.value.payload, <<100, 97, 116, 97>>), <<100, 105, 100>>)
              = Member(ret.out.value.payload, <<105, 115, 115>>)
        /\ ret.arg.call = "getProfileDetails" =>
              /\ Member(ret.out.value.payload, <<116, 121, 112, 101>>) = JStr(<<105, 114, 108, 58, 112, 114, 111, 102, 105, 108, 101, 58, 100, 101, 116, 97, 105, 108, 115>>)
              /\ MemberNames(Member(ret.out.value.payload, <<100, 97, 116, 97>>))
                    = <<<<100, 105, 100>>, <<110, 97, 109, 101>>, <<115, 111, 99, 105, 97, 108, 115>>>>
              /\ Member(Member(ret.out.value.payload, <<100, 97, 116, 97>>), <<110, 97, 109, 101>>)
                    = JStr(ret.arg.issued.profile.name)
              /\ Member(Member(ret.out.value.payload, <<100, 97, 116, 97>>), <<115, 111, 99, 105, 97, 108, 115>>)
                    = SocialsJSON(ret.arg.issued.profile)
        /\ ret.arg.call = "getAvatar" =>
              /\ Member(ret.out.value.payload, <<116, 121, 112, 101>>) = JStr(<<105, 114, 108, 58, 97, 118, 97, 116, 97, 114>>)
              /\ MemberNames(Member(ret.out.value.payload, <<100, 97, 116, 97>>))
                    = <<<<100, 105, 100>>, <<97, 118, 97, 116, 97, 114>>>>
              /\ Member(Member(ret.out.value.payload, <<100, 97, 116, 97>>), <<97, 118, 97, 116, 97, 114>>)
                    = JStr(ret.arg.issued.profile.avatar.s)

PayloadFieldsWitness ==
    /\ DecodedIssued
    /\ ret.arg.call = "getProfileDetails"
    /\ ret.arg.issued.origin = <<104, 116, 116, 112, 58, 47, 47, 108, 111, 99, 97, 108, 104, 111, 115, 116, 58, 53, 49, 55, 51>>
    /\ ret.arg.issued.profile.socials.def
    /\ Member(ret.out.value.payload, <<97, 117, 100>>) = JStr(<<104, 116, 116, 112, 58, 47, 47, 108, 111, 99, 97, 108, 104, 111, 115, 116, 58, 53, 49, 55, 51>>)
    /\ Len(Member(Member(ret.out.value.payload, <<100, 97, 116, 97>>), <<115, 111, 99, 105, 97, 108, 115>>).e) = 1

\* C13: every assertion createJWT returns has exactly two dots and three
\* non-empty segments of unpadded base64url; the first segment decodes to
\* the header {alg: 'EdDSA', typ: 'JWT'} and the third is the signature of
\* the signing key over the bytes of 'segment1.segment2'.
AssertionFormat ==
    (ret.op = "createJWT" /\ ret.out.kind = "ok" /\ token = ret.out.value) =>
        LET parts == Split(token, 46) IN
        /\ Cardinality({i \in 1..Len(token) : token[i] = 46}) = 2
        /\ Len(parts) = 3
        /\ \A k \in 1..3 : parts[k] # <<>> /\ IsBase64Url(parts[k])
        /\ decodeJWT_part(parts[1])
              = Ok(JObj(<<JEntry(<<97, 108, 103>>, JStr(<<69, 100, 68, 83, 65>>)),
                          JEntry(<<116, 121, 112>>, JStr(<<74, 87, 84>>))>>))
        /\ base64url_decode(parts[3])
              = Ok(ed25519_sign(toByteArray(ret.arg.key).value,
                                TextEncode(parts[1] \o <<46>> \o parts[2])))

AssertionFormatWitness ==
    /\ ret.op = "createJWT"
    /\ ret.out.kind = "ok"
    /\ token = ret.out.value
    /\ ret.arg.payload = 2
    /\ Split(token, 46)[1] = <<101, 121, 74, 104, 98, 71, 99, 105, 79, 105, 74, 70, 90, 69, 82, 84, 81, 83, 73, 115, 73, 110, 82, 53, 99, 67, 73, 54, 73, 107, 112, 88, 86, 67, 74, 57>>
    /\ Len(Split(token, 46)[3]) = 86

\* the value of a base58btc character, -1 outside the alphabet
B58Value(c) ==
    IF \E v \in 1..58 : BASE58_ALPHABET[v] = c
    THEN (CHOOSE v \in 1..58 : BASE58_ALPHABET[v] = c) - 1
    ELSE -1

\* the little-endian bytes from bytes[j] on, times mul, plus carry
RECURSIVE B256Step(_, _, _, _)
B256Step(bytes, j, mul, carry) ==
    IF j > Len(bytes)
    THEN (IF carry > 0 THEN <<carry % 256>> \o B256Step(bytes, j, mul, carry \div 256)
          ELSE <<>>)
    ELSE <<(carry + bytes[j] * mul) % 256>>
         \o B256Step(bytes, j + 1, mul, (carry + bytes[j] * mul) \div 256)

\* the number the characters str[lo..hi] denote, for at most three of them
B58Group(str, lo, hi) ==
    IF hi = lo THEN B58Value(str[lo])
    ELSE IF hi = lo + 1 THEN B58Value(str[lo]) * 58 + B58Value(str[hi])
    ELSE B58Value(str[lo]) * 3364 + B58Value(str[lo + 1]) * 58 + B58Value(str[hi])

\* the number the first n characters of str denote, in little-endian bytes,
\* taking three characters at a time from the end
RECURSIVE B58Number(_, _)
B58Number(str, n) ==
    IF n = 0 THEN <<>>
    ELSE IF n < 3 THEN B256Step(<<>>, 1, 58 ^ n, B58Group(str, 1, n))
    ELSE B256Step(B58Number(str, n - 3), 1, 195112, B58Group(str, n - 2, n))

\* base58btc decoding: one zero byte for each leading '1', then the number
\* in big-endian bytes
B58Decode(str) ==
    LET le == B58Number(str, Len(str))
        ones == Scan(str, 1, {49}, FALSE) - 1
    IN Repeat(0, ones) \o [i \in 1..Len(le) |-> le[Len(le) + 1 - i]]

\* C14: for every 32-byte public key the DID is 'did:key:z' followed by the
\* base58btc encoding of the 34 bytes 0xED, 0x01 and the key: what follows
\* the literal is written in the base58btc alphabet and decodes to exactly
\* those bytes.
DidFormat ==
    (ret.op = "createDidFromPublicKey" /\ Len(ret.arg.publicKey) = PUBLIC_KEY_LENGTH)
        => /\ ret.out.kind = "ok"
           /\ Len(ret.out.value) > 9
           /\ SubSeq(ret.out.value, 1, 9) = <<100, 105, 100, 58, 107, 101, 121, 58, 122>>
           /\ \A i \in 10..Len(ret.out.value) : B58Value(ret.out.value[i]) >= 0
           /\ B58Decode(SubSeq(ret.out.value, 10, Len(ret.out.value)))
                 = <<237, 1>> \o ret.arg.publicKey

DidFormatWitness ==
    /\ ret.op = "createDidFromPublicKey"
    /\ ret.arg.publicKey = KeyPairOf[1].publicKey
    /\ ret.out.kind = "ok"
    /\ Len(ret.out.value) = 56
    /\ SubSeq(ret.out.value, 1, 12) = <<100, 105, 100, 58, 107, 101, 121, 58, 122, 54, 77, 107>>

\* C15: DID derivation is a function of the public key and injective:
\* deriving again from the same key gives the same string, and no other
\* key gives that string.
DidInjective ==
    ret.op = "createDidFromPublicKey" =>
        /\ createDidFromPublicKey(ret.arg.publicKey) = ret.out
        /\ \A other \in DidKeys :
              createDidFromPublicKey(other) = ret.out => other = ret.arg.publicKey

DidInjectiveWitness ==
    /\ ret.op = "createDidFromPublicKey"
    /\ ret.arg.publicKey = KeyPairOf[1].publicKey
    /\ \E other \in DidKeys :
          /\ Len(other) = PUBLIC_KEY_LENGTH
          /\ other # ret.arg.publicKey
          /\ SubSeq(other, 1, 31) = SubSeq(ret.arg.publicKey, 1, 31)
          /\ createDidFromPublicKey(other) # ret.out

\* w occurs in s
Occurs(w, s) ==
    \/ w = <<>>
    \/ \E i \in 1..(Len(s) - Len(w) + 1) :
          s[i] = w[1] /\ SubSeq(s, i, i + Len(w) - 1) = w

\* the call of ret made again on the same profile, origin and clock with
\* private key key in the store
IssuedWithKey(key) ==
    IF ret.op = "getProfileDetails"
    THEN getProfileDetails(ret.arg.profile, [has |-> TRUE, s |-> key],
                           ret.arg.now, ret.arg.origin)
    ELSE getAvatar(ret.arg.profile, [has |-> TRUE, s |-> key],
                   ret.arg.now, ret.arg.origin)

\* header and payload segment of an assertion, with the dot between them
SignedPart(jwt) ==
    LET joined(parts) == parts[1] \o <<46>> \o parts[2] IN joined(Split(jwt, 46))

\* C16: the secret key is in no issued payload and in neither the header
\* nor the payload segment: the stored key string occurs neither in the
\* two segments nor in the texts they encode, and the same profile, origin
\* and clock with another secret key give the same two segments.
SecretKeyHidden ==
    (Issued /\ ret.out.kind = "ok") =>
        /\ ~Occurs(ret.arg.privateKey.s, SignedPart(ret.out.value))
        /\ \A k \in 1..2 :
              ~Occurs(ret.arg.privateKey.s,
                      TextDecode(base64url_decode(Split(ret.out.value, 46)[k]).value))
        /\ LET same(other) == /\ other.kind = "ok"
                               /\ SignedPart(other.value) = SignedPart(ret.out.value)
           IN \A k \in 1..MaxSeed :
                 ProfileKeysOf[k].privateKey # ret.arg.privateKey.s
                     => same(IssuedWithKey(ProfileKeysOf[k].privateKey))

SecretKeyHiddenWitness ==
    /\ Issued
    /\ ret.out.kind = "ok"
    /\ \E k \in 1..MaxSeed :
          /\ ProfileKeysOf[k].privateKey # ret.arg.privateKey.s
          /\ IssuedWithKey(ProfileKeysOf[k].privateKey).value # ret.out.value
          /\ SignedPart(IssuedWithKey(ProfileKeysOf[k].privateKey).value)
                = SignedPart(ret.out.value)

\* verifyJWT was called on an assertion the facade issued
VerifiedIssued == ret.op = "verifyJWT" /\ "issued" \in DOMAIN ret.arg

\* the assertion handed to verifyJWT was signed with the secret key of the
\* key pair whose public key verifyJWT is given
ValidlySigned ==
    \E k \in 1..MaxSeed :
        /\ KeyPairOf[k].publicKey = ret.arg.publicKey
        /\ ProfileKeysOf[k].privateKey = ret.arg.issued.privateKey.s

\* C17: verifyJWT makes no expiry check: whenever it is called, before or
\* after the exp of the payload, it returns true for a validly signed
\* assertion; the verdict is decided by the keys alone.
VerifyIgnoresClock ==
    VerifiedIssued => ret.out = Ok(ValidlySigned)

VerifyIgnoresClockWitness ==
    /\ VerifiedIssued
    /\ ValidlySigned
    /\ ret.arg.at > ret.arg.issued.now + 120
    /\ now = ret.arg.at
    /\ ret.out = Ok(TRUE)

\* the operations that issue and check credentials
CredentialCalls == {"getProfileDetails", "getAvatar", "verifyJWT", "decodeJWT"}

\* C18: no call of getProfileDetails, getAvatar (createJWT within them),
\* decodeJWT or verifyJWT, failing or not, changes the stored profile or
\* the stored private key: every step that makes such a call, or leaves
\* its result on record, leaves both as they were.
StoreFrame ==
    [][ret'.op \in CredentialCalls
          => (profile' = profile /\ privateKey' = privateKey)]_vars

\* an assertion was issued and verified, and the store is what it was
\* when the assertion was issued
StoreFrameWitness ==
    /\ VerifiedIssued
    /\ ret.out = Ok(TRUE)
    /\ profile.has /\ privateKey.has
    /\ profile = ret.arg.issued.profile
    /\ privateKey = ret.arg.issued.privateKey

\* C19: an identity generateProfileKeys returns is self-consistent: the
\* private key decodes to 64 bytes, the last 32 of them are the public
\* key, the DID is derived from that public key, and what createJWT signs
\* with the private key verifyJWT accepts under the public key.
GeneratedConsistent ==
    (ret.op = "generateProfileKeys" /\ ret.out.kind = "ok") =>
        LET keys == ret.out.value
            sk == toByteArray(keys.privateKey)
            pk == toByteArray(keys.publicKey)
        IN /\ sk.kind = "ok" /\ Len(sk.value) = SECRET_KEY_LENGTH
           /\ pk.kind = "ok" /\ Len(pk.value) = PUBLIC_KEY_LENGTH
           /\ SubSeq(sk.value, 33, 64) = pk.value
           /\ createDidFromPublicKey(pk.value) = Ok(keys.did)
           /\ \A n \in 1..MaxPayload :
                 /\ createJWT(Payload(n), keys.privateKey).kind = "ok"
                 /\ verifyJWT(createJWT(Payload(n), keys.privateKey).value,
                              pk.value, Ok(FALSE)) = Ok(TRUE)

GeneratedConsistentWitness ==
    /\ ret.op = "generateProfileKeys"
    /\ ret.arg.rng = "node"
    /\ ret.out.kind = "ok"
    /\ Len(ret.out.value.privateKey) = 88
    /\ Len(ret.out.value.publicKey) = 44
    /\ SubSeq(ret.out.value.did, 1, 12) = <<100, 105, 100, 58, 107, 101, 121, 58, 122, 54, 77, 107>>

\* C20: on a host without a cryptographically secure random source key
\* generation fails with an error and yields no key pair; a key pair that
\* is returned has for its seed the bytes crypto.getRandomValues or
\* crypto.randomBytes delivered.
NoWeakSeed ==
    ret.op = "generateProfileKeys" =>
        /\ ret.arg.rng \notin {"webcrypto", "node"} => ret.out.kind = "error"
        /\ ret.arg.rng = "none" =>
              ret.out = Throw("No secure random number generator available")
        /\ ret.out.kind = "ok" =>
              /\ ret.arg.rng \in {"webcrypto", "node"}
              /\ SubSeq(toByteArray(ret.out.value.privateKey).value, 1, SEED_SIZE)
                    = ret.arg.entropy

NoWeakSeedWitness ==
    /\ ret.op = "generateProfileKeys"
    /\ ret.arg.rng = "none"
    /\ ret.out.kind = "error"
    /\ ret.out.error = "No secure random number generator available"

\* C21: for every byte sequence b, base64url.encode(b) has no '+', '/' or
\* '=', consists of the 4 * Len(b) / 3 (rounded up) characters of the
\* base64url alphabet, and base64url.decode gives b back.
Base64urlRoundTrip ==
    ret.op = "base64url" =>
        /\ \A i \in 1..Len(ret.arg.encoded) : ret.arg.encoded[i] \notin {43, 47, 61}
        /\ IsBase64Url(ret.arg.encoded)
        /\ Len(ret.arg.encoded) = (4 * Len(ret.arg.bytes) + 2) \div 3
        /\ ret.out = Ok(ret.arg.bytes)

Base64urlRoundTripWitness ==
    /\ ret.op = "base64url"
    /\ ret.arg.bytes = <<251, 255>>
    /\ ret.arg.encoded = <<45, 95, 56>>
    /\ ret.out = Ok(<<251, 255>>)

\* verifyJWT was handed a string createJWT did not make, of three
\* segments, whose third segment is the signature of key pair k over the
\* first two, together with the public key of k
SignedOverOwnSegments ==
    /\ ret.op = "verifyJWT"
    /\ tokenOrig = <<>>
    /\ Len(Split(ret.arg.jwt, 46)) = 3
    /\ \E k \in 1..MaxSeed :
          /\ KeyPairOf[k].publicKey = ret.arg.publicKey
          /\ Split(ret.arg.jwt, 46)[3]
                = SignatureB64(k, Split(ret.arg.jwt, 46)[1] \o <<46>> \o Split(ret.arg.jwt, 46)[2])

\* C25: verifyJWT decides on the characters of the assertion and the
\* public key alone: an assertion signed over its own first two segments
\* is accepted whatever its header and payload say, also when the header
\* names another alg or typ or is no JSON at all.
HeaderIgnored ==
    SignedOverOwnSegments => ret.out = Ok(TRUE)

HeaderIgnoredWitness ==
    /\ SignedOverOwnSegments
    /\ decodeJWT_part(Split(ret.arg.jwt, 46)[1])
          = Ok(JObj(<<JEntry(<<97, 108, 103>>, JStr(<<110, 111, 110, 101>>)), JEntry(<<116, 121, 112>>, JStr(<<74, 87, 83>>))>>))
    /\ ret.out = Ok(TRUE)

(***************************************************************************)
(* The host page: window.irlBrowser, the useIrlOnboarding instances that   *)
(* watch it and the profile store; and the IrlOnboarding component.        *)
(***************************************************************************)
\* reading window.irlBrowser: undefined when there is no such property, the
\* data property's value, or what the accessor's getter returns
ReadIrlBrowser(w) == IF w.prop = "absent" THEN Undefined ELSE w.value

\* core/api hasIRLBrowserAPI(): every API object is truthy, undefined is not
hasIRLBrowserAPI(w) == w.defined /\ ReadIrlBrowser(w).kind # "undefined"

\* utils/deviceDetection isIRLBrowser()
isIRLBrowser(w) ==
    IF ~w.defined THEN FALSE ELSE ReadIrlBrowser(w).kind # "undefined"

\* core/storage hasProfile() and core/profile getCurrentProfile() on the store
hasProfile(prof) == prof.has
getCurrentProfile(prof) == prof

\* the state checkStatus computes
CheckedState(w, prof) ==
    [shouldShowOnboarding |-> ~isIRLBrowser(w) /\ ~(hasProfile(prof) /\ hasIRLBrowserAPI(w)),
     profile |-> getCurrentProfile(prof),
     isLoading |-> FALSE]

\* checkStatus of the instance hk: nothing once its effect was cleaned up
checkStatus(hk, w, prof) ==
    IF ~hk.isMounted THEN hk ELSE [hk EXCEPT !.state = CheckedState(w, prof)]

\* the window after window.irlBrowser = obj: the accessor's setter stores obj
\* in its closure, anything else makes or overwrites a data property
Assigned(w, obj) ==
    IF w.prop = "accessor" THEN [w EXCEPT !.value = obj]
    ELSE [w EXCEPT !.prop = "data", !.value = obj, !.owner = 0]

\* the hook instances after window.irlBrowser = obj: the accessor's setter
\* calls the checkStatus of the instance that defined it
AfterAssignment(w, obj) ==
    IF w.prop = "accessor"
    THEN [hooks EXCEPT ![w.owner] = checkStatus(hooks[w.owner], Assigned(w, obj), profile)]
    ELSE hooks

PageRet(op) == [op |-> op, arg |-> <<>>, out |-> Null]

\* injectIRLBrowserAPI assigning a new MockIRLBrowser whatever is there
injectIRLBrowserAPI_Overwrites ==
    /\ window.defined => apiObjects < MaxObjects
    /\ ret' = PageRet("injectIRLBrowserAPI")
    /\ IF ~window.defined
       THEN UNCHANGED <<window, apiObjects, hooks>>
       ELSE /\ apiObjects' = apiObjects + 1
            /\ window' = Assigned(window, [kind |-> "mock", id |-> apiObjects + 1])
            /\ hooks' = AfterAssignment(window, [kind |-> "mock", id |-> apiObjects + 1])
    /\ UNCHANGED <<wire, store, onboarding, form>>

\* core/api injectIRLBrowserAPI()
injectIRLBrowserAPI ==
    /\ (window.defined /\ ReadIrlBrowser(window).kind = "undefined")
          => apiObjects < MaxObjects
    /\ ret' = PageRet("injectIRLBrowserAPI")
    /\ IF ~window.defined
       THEN UNCHANGED <<window, apiObjects, hooks>>
       ELSE IF ReadIrlBrowser(window).kind # "undefined"
       THEN UNCHANGED <<window, apiObjects, hooks>>
       ELSE /\ apiObjects' = apiObjects + 1
            /\ window' = Assigned(window, [kind |-> "mock", id |-> apiObjects + 1])
            /\ hooks' = AfterAssignment(window, [kind |-> "mock", id |-> apiObjects + 1])
    /\ UNCHANGED <<wire, store, onboarding, form>>

\* removeIRLBrowserAPI on a window whose accessor property cannot be deleted
removeIRLBrowserAPI_KeepsAccessor ==
    /\ ret' = PageRet("removeIRLBrowserAPI")
    /\ window' = IF window.defined /\ window.prop = "data"
                 THEN BrowserWindow ELSE window
    /\ UNCHANGED <<apiObjects, hooks, wire, store, onboarding, form>>

\* core/api removeIRLBrowserAPI(): delete removes the property, data or
\* accessor (both are configurable)
removeIRLBrowserAPI ==
    /\ ret' = PageRet("removeIRLBrowserAPI")
    /\ window' = IF window.defined THEN BrowserWindow ELSE window
    /\ UNCHANGED <<apiObjects, hooks, wire, store, onboarding, form>>

\* a native host (or the demo's simulateNativeApp) assigns its own object to
\* window.irlBrowser
NativeInstall ==
    /\ window.defined
    /\ apiObjects < MaxObjects
    /\ ret' = PageRet("nativeInstall")
    /\ apiObjects' = apiObjects + 1
    /\ window' = Assigned(window, [kind |-> "native", id |-> apiObjects + 1])
    /\ hooks' = AfterAssignment(window, [kind |-> "native", id |-> apiObjects + 1])
    /\ UNCHANGED <<wire, store, onboarding, form>>

\* the instance h renders for the first time and its effect runs: the
\* initial check, then the property detector if window has no irlBrowser
\* property.  Instances mount in the order of their numbers.
Mount(h) ==
    /\ hooks[h].status = "idle"
    /\ \A g \in 1..(h - 1) : hooks[g].status # "idle"
    /\ ret' = PageRet("mount")
    /\ IF ~window.defined
       THEN /\ hooks' = [hooks EXCEPT ![h] =
                           [status |-> "mounted", isMounted |-> FALSE,
                            apiAtMount |-> FALSE,
                            state |-> [shouldShowOnboarding |-> FALSE,
                                       profile |-> NoProfile,
                                       isLoading |-> FALSE]]]
            /\ UNCHANGED window
       ELSE /\ hooks' = [hooks EXCEPT ![h] =
                           [status |-> "mounted", isMounted |-> TRUE,
                            apiAtMount |-> hasIRLBrowserAPI(window),
                            state |-> CheckedState(window, profile)]]
            /\ window' = IF window.prop = "absent"
                         THEN [window EXCEPT !.prop = "accessor",
                                             !.value = Undefined, !.owner = h]
                         ELSE window
    /\ UNCHANGED <<apiObjects, wire, store, onboarding, form>>

\* the instance h unmounts: the effect's cleanup
Unmount(h) ==
    /\ hooks[h].status = "mounted"
    /\ ret' = PageRet("unmount")
    /\ hooks' = [hooks EXCEPT ![h].status = "unmounted", ![h].isMounted = FALSE]
    /\ UNCHANGED <<window, apiObjects, wire, store, onboarding, form>>

\* the values of IrlOnboarding's mode prop: 'choice', 'download-prompt' and
\* one that is neither
Modes == {"choice", "download-prompt", "custom"}

\* IrlOnboarding testing for the create flow before the download prompt
Screen_CreateFirst(ob) ==
    IF ob.mode = "choice" /\ ob.selectedMode = "null" THEN "choice"
    ELSE IF ob.selectedMode = "create" THEN "create"
    ELSE IF ob.mode = "download-prompt" THEN "download-prompt"
    ELSE "children"

\* what IrlOnboarding renders: the choice screen, DownloadPrompt,
\* CreateAccountFlow or its children
Screen(ob) ==
    IF ob.mode = "choice" /\ ob.selectedMode = "null" THEN "choice"
    ELSE IF ob.mode = "download-prompt" THEN "download-prompt"
    ELSE IF ob.selectedMode = "create" THEN "create"
    ELSE "children"

\* IrlOnboarding renders for the first time with mode m
RenderOnboarding(m) ==
    /\ ~onboarding.mounted
    /\ ret' = PageRet("render")
    /\ onboarding' = [mounted |-> TRUE, mode |-> m,
                      selectedMode |-> IF m = "choice" THEN "null" ELSE "download"]
    /\ UNCHANGED <<window, apiObjects, hooks, wire, store, form>>

\* the parent renders IrlOnboarding again with another mode; the state
\* selectedMode is kept
ChangeMode(m) ==
    /\ onboarding.mounted
    /\ m # onboarding.mode
    /\ ret' = PageRet("changeMode")
    /\ onboarding' = [onboarding EXCEPT !.mode = m]
    /\ UNCHANGED <<window, apiObjects, hooks, wire, store, form>>

\* the user presses 'Create Temporary Account' on the choice screen
PressCreate ==
    /\ onboarding.mounted
    /\ Screen(onboarding) = "choice"
    /\ ret' = PageRet("pressCreate")
    /\ onboarding' = [onboarding EXCEPT !.selectedMode = "create"]
    /\ UNCHANGED <<window, apiObjects, hooks, wire, store, form>>

\* the user goes back from the create flow: onBack is handleBackToChoice
\* while mode is 'choice' and undefined otherwise
PressBack ==
    /\ onboarding.mounted
    /\ Screen(onboarding) = "create"
    /\ onboarding.mode = "choice"
    /\ ret' = PageRet("pressBack")
    /\ onboarding' = [onboarding EXCEPT !.selectedMode = "null"]
    /\ UNCHANGED <<window, apiObjects, hooks, wire, store, form>>

NextPage ==
    \/ injectIRLBrowserAPI
    \/ removeIRLBrowserAPI
    \/ NativeInstall
    \/ \E h \in 1..MaxHooks : Mount(h)
    \/ \E h \in 1..MaxHooks : Unmount(h)
    \/ CreateProfile(1, <<65, 108>>, [def |-> FALSE, v |-> <<>>], [def |-> FALSE, s |-> <<>>])
    \/ ClearProfile

SpecPage == InitPage /\ [][NextPage]_vars

(***************************************************************************)
(* Properties of the host page, checked under SpecPage, and of             *)
(* IrlOnboarding, checked under SpecFlow.                                  *)
(***************************************************************************)
\* C22: on a page, injectIRLBrowserAPI called while an API object (native
\* or injected earlier) is present changes nothing: not the property, not
\* the objects constructed, not a hook instance; called while none is
\* present, it leaves hasIRLBrowserAPI() true.
InjectKeepsExisting ==
    [][(ret'.op = "injectIRLBrowserAPI" /\ window.defined)
          => IF hasIRLBrowserAPI(window)
             THEN window' = window /\ apiObjects' = apiObjects /\ hooks' = hooks
             ELSE hasIRLBrowserAPI(window')]_vars

InjectKeepsExistingWitness ==
    /\ ret.op = "injectIRLBrowserAPI"
    /\ window.prop = "accessor"
    /\ window.value = [kind |-> "native", id |-> 1]
    /\ apiObjects = 1

\* C23: when an injection makes the API available, every mounted instance of
\* useIrlOnboarding that mounted while no API was available holds, after the
\* injection, the state a check made then computes.
RecheckOnInjection ==
    [][(ret'.op = "injectIRLBrowserAPI" /\ ~hasIRLBrowserAPI(window)
          /\ hasIRLBrowserAPI(window'))
          => \A h \in 1..MaxHooks :
                (hooks[h].status = "mounted" /\ ~hooks[h].apiAtMount)
                    => hooks'[h].state = CheckedState(window', profile')]_vars

\* C24: on a page, every mounted instance of useIrlOnboarding (its initial
\* check is done) has shouldShowOnboarding true exactly when no
\* window.irlBrowser API is available.
ShowsOnboardingIffNoApi ==
    \A h \in 1..MaxHooks :
        (window.defined /\ hooks[h].status = "mounted")
            => (hooks[h].state.shouldShowOnboarding <=> ~hasIRLBrowserAPI(window))

\* C26 as stated: the create flow is rendered only in mode 'choice' after
\* 'Create Temporary Account'; mode 'download-prompt' renders the download
\* prompt and any other mode but 'choice' renders the children.
CreateFlowOnlyInChoice ==
    onboarding.mounted
        => /\ Screen(onboarding) = "create"
                => (onboarding.mode = "choice" /\ onboarding.selectedMode = "create")
           /\ onboarding.mode = "download-prompt"
                => Screen(onboarding) = "download-prompt"
           /\ onboarding.mode \notin {"choice", "download-prompt"}
                => Screen(onboarding) = "children"

\* C26: the create flow is rendered only after the user pressed 'Create
\* Temporary Account', which is offered only on the choice screen of mode
\* 'choice', and only while mode is not 'download-prompt'; Back, offered
\* only while mode is 'choice', returns to the choice screen; mode
\* 'download-prompt' always renders the download prompt, and any other mode
\* but 'choice' renders the children unless the create flow was chosen
\* before.
CreateFlowOnlyAfterChoice ==
    /\ [](onboarding.mounted
            => /\ Screen(onboarding) = "create"
                    => (onboarding.selectedMode = "create"
                        /\ onboarding.mode # "download-prompt")
               /\ onboarding.mode = "download-prompt"
                    => Screen(onboarding) = "download-prompt"
               /\ (onboarding.mode \notin {"choice", "download-prompt"}
                   /\ onboarding.selectedMode # "create")
                    => Screen(onboarding) = "children")
    /\ [][(onboarding'.selectedMode = "create" /\ onboarding.selectedMode # "create")
             => (ret'.op = "pressCreate" /\ onboarding.mode = "choice"
                 /\ Screen(onboarding) = "choice")]_vars
    /\ [][ret'.op = "pressBack"
             => (Screen(onboarding) = "create" /\ onboarding.mode = "choice"
                 /\ Screen(onboarding') = "choice")]_vars

CreateFlowOnlyAfterChoiceWitness ==
    /\ onboarding.mounted
    /\ onboarding.mode = "custom"
    /\ Screen(onboarding) = "create"

\* C30: removeIRLBrowserAPI leaves hasIRLBrowserAPI() and isIRLBrowser()
\* false, whether the property was the mock's or a native host's data
\* property or a hook's accessor; on a page, an injectIRLBrowserAPI that
\* follows it installs a MockIRLBrowser constructed by that call; and the
\* two functions agree in every state.
RemoveThenFresh ==
    /\ [](hasIRLBrowserAPI(window) = isIRLBrowser(window))
    /\ [][ret'.op = "removeIRLBrowserAPI"
             => (~hasIRLBrowserAPI(window') /\ ~isIRLBrowser(window'))]_vars
    /\ [][(ret.op = "removeIRLBrowserAPI" /\ ret'.op = "injectIRLBrowserAPI"
             /\ window.defined)
             => (/\ ReadIrlBrowser(window') = [kind |-> "mock", id |-> apiObjects + 1]
                 /\ apiObjects' = apiObjects + 1
                 /\ hasIRLBrowserAPI(window') /\ isIRLBrowser(window'))]_vars

RemoveThenFreshWitness ==
    /\ ret.op = "injectIRLBrowserAPI"
    /\ hooks[1].status = "mounted" /\ ~hooks[1].apiAtMount
    /\ window.prop = "data"
    /\ window.value = [kind |-> "mock", id |-> 2]

(***************************************************************************)
(* utils/socialLinks: normalizeHandle, validateHandle, createSocialLink.   *)
(***************************************************************************)
\* white space as String.prototype.trim and the class \s know it
IsSpace(c) ==
    c \in {9, 10, 11, 12, 13, 32, 160, 5760, 8232, 8233, 8239, 8287, 12288, 65279}
    \/ (c >= 8192 /\ c <= 8202)

IsDigit(c) == c >= 48 /\ c <= 57
IsLetter(c) == (c >= 65 /\ c <= 90) \/ (c >= 97 /\ c <= 122)
IsAlnum(c) == IsLetter(c) \/ IsDigit(c)

\* String.prototype.trim
Trim(s) ==
    LET kept == {i \in 1..Len(s) : ~IsSpace(s[i])} IN
    IF kept = {} THEN <<>>
    ELSE SubSeq(s, CHOOSE i \in kept : \A j \in kept : i <= j,
                   CHOOSE i \in kept : \A j \in kept : i >= j)

\* normalizeHandle, lines 82-104: the user name of a URL
ExtractFromUrl(platform, s) ==
    LET
        \* match[1] when the capture starts at j: the longest run of characters
        \* other than '/' and '?'
        Captured(s0, j) ==
            SubSeq(s0, j, CHOOSE k \in j..Len(s0) :
                            /\ \A i \in j..k : s0[i] \notin {47, 63}
                            /\ k = Len(s0) \/ s0[k + 1] \in {47, 63})
    IN
    LET
        \* the matches of urlPatterns[platform] in s: a prefix begins at start and
        \* a character other than '/' and '?' follows it, at capture
        UrlMatches(platform1, s0) ==
            LET
                \* the literal prefixes of urlPatterns[platform1], one per alternative; the
                \* empty set for a platform1 without a pattern
                UrlPrefixes(platform0) ==
                    CASE platform0 = "INSTAGRAM" -> { <<105, 110, 115, 116, 97, 103, 114, 97, 109, 46, 99, 111, 109, 47>> }
                      [] platform0 = "X" -> { <<116, 119, 105, 116, 116, 101, 114, 46, 99, 111, 109, 47>>, <<120, 46, 99, 111, 109, 47>> }
                      [] platform0 = "BLUESKY" -> { <<98, 115, 107, 121, 46, 97, 112, 112, 47, 112, 114, 111, 102, 105, 108, 101, 47>> }
                      [] platform0 = "LINKEDIN" -> { <<108, 105, 110, 107, 101, 100, 105, 110, 46, 99, 111, 109, 47, 105, 110, 47>> }
                      [] platform0 = "GITHUB" -> { <<103, 105, 116, 104, 117, 98, 46, 99, 111, 109, 47>> }
                      [] platform0 = "FACEBOOK" -> { <<102, 97, 99, 101, 98, 111, 111, 107, 46, 99, 111, 109, 47>> }
                      [] platform0 = "REDDIT" -> { <<114, 101, 100, 100, 105, 116, 46, 99, 111, 109, 47, 117, 115, 101, 114, 47>>, <<114, 101, 100, 100, 105, 116, 46, 99, 111, 109, 47, 117, 47>> }
                      [] platform0 = "TWITCH" -> { <<116, 119, 105, 116, 99, 104, 46, 116, 118, 47>> }
                      [] platform0 = "YOUTUBE" -> { <<121, 111, 117, 116, 117, 98, 101, 46, 99, 111, 109, 47, 64>> }
                      [] platform0 = "TIKTOK" -> { <<116, 105, 107, 116, 111, 107, 46, 99, 111, 109, 47, 64>> }
                      [] OTHER -> {}
            IN
            { m \in [start : 1..Len(s0), capture : 1..Len(s0)] :
                /\ s0[m.capture] \notin {47, 63}
                /\ \E l \in UrlPrefixes(platform1) :
                      /\ m.capture = m.start + Len(l)
                      /\ SubSeq(s0, m.start, m.capture - 1) = l }
    IN
    IF ~(StartsWith(s, 1, <<104, 116, 116, 112, 58, 47, 47>>) \/ StartsWith(s, 1, <<104, 116, 116, 112, 115, 58, 47, 47>>)) THEN s
    ELSE IF UrlMatches(platform, s) = {} THEN s
    ELSE Captured(s, (CHOOSE m \in UrlMatches(platform, s) :
                        \A n \in UrlMatches(platform, s) : m.start <= n.start).capture)

\* replace(/^@/, '') and replace(/^u\//, '')
StripPrefix(s, p) == IF StartsWith(s, 1, p) THEN SubSeq(s, Len(p) + 1, Len(s)) ELSE s

\* normalizeHandle, lines 106-127
NormalizeExtracted(platform, s) ==
    LET
        \* String.prototype.toLowerCase on the letters A-Z
        ToLowerCase(s0) == [i \in 1..Len(s0) |-> IF s0[i] >= 65 /\ s0[i] <= 90 THEN s0[i] + 32 ELSE s0[i]]
    IN
    LET stripped == IF platform \in {"INSTAGRAM", "X", "TIKTOK", "TELEGRAM"}
                    THEN StripPrefix(s, <<64>>) ELSE s
    IN CASE platform = "REDDIT" -> StripPrefix(stripped, <<117, 47>>)
         [] platform = "EMAIL" -> ToLowerCase(stripped)
         [] platform = "WEBSITE" ->
                IF ~StartsWith(stripped, 1, <<104, 116, 116, 112, 58, 47, 47>>) /\ ~StartsWith(stripped, 1, <<104, 116, 116, 112, 115, 58, 47, 47>>)
                THEN <<104, 116, 116, 112, 115, 58, 47, 47>> \o stripped ELSE stripped
         [] OTHER -> stripped

\* normalizeHandle(platform, input): null, or the handle
normalizeHandle(platform, input) ==
    IF input = <<>> \/ Trim(input) = <<>> THEN Null
    ELSE Ok(NormalizeExtracted(platform, ExtractFromUrl(platform, Trim(input))))

Word(c) == IsAlnum(c) \/ c = 95                   \* [a-zA-Z0-9_]
AnyChar(c) ==
    LET
        \* the characters the regular expression . does not match
        IsLineTerminator(c0) == c0 \in {10, 13, 8232, 8233}
    IN
              ~IsLineTerminator(c)                \* .
\* validationPatterns[platform].test(handle)
MatchesPattern(platform, s) ==
    LET
        \* /^[a-zA-Z0-9.-]+\.[a-zA-Z]{2,}$/
        IsDomain(s0) ==
            LET
                AlnumDotDash(c) == IsAlnum(c) \/ c \in {45, 46}   \* [a-zA-Z0-9.-]
            IN
            \E k \in 2..(Len(s0) - 2) :
                /\ s0[k] = 46
                /\ \A i \in 1..(k - 1) : AlnumDotDash(s0[i])
                /\ \A i \in (k + 1)..Len(s0) : IsLetter(s0[i])
    IN
    LET
        \* /^@?[a-zA-Z0-9_]+@[a-zA-Z0-9.-]+\.[a-zA-Z]{2,}$/
        IsMastodon(s0) ==
            LET t == StripPrefix(s0, <<64>>) IN
            \E k \in 2..Len(t) :
                /\ t[k] = 64
                /\ \A i \in 1..(k - 1) : Word(t[i])
                /\ IsDomain(SubSeq(t, k + 1, Len(t)))
    IN
    LET
        \* /^[^\s@]+@[^\s@]+\.[^\s@]+$/
        IsEmail(s0) ==
            LET
                NoSpaceAt(c) == ~IsSpace(c) /\ c # 64             \* [^\s0@]
            IN
            \E k \in 2..Len(s0) :
                /\ s0[k] = 64
                /\ \A i \in 1..Len(s0) : i # k => NoSpaceAt(s0[i])
                /\ \E d \in (k + 2)..(Len(s0) - 1) : s0[d] = 46
    IN
    LET
        \* /^https?:\/\/.+\..+$/
        IsWebsite(s0) ==
            /\ StartsWith(s0, 1, <<104, 116, 116, 112, 58, 47, 47>>) \/ StartsWith(s0, 1, <<104, 116, 116, 112, 115, 58, 47, 47>>)
            /\ \A i \in 1..Len(s0) : AnyChar(s0[i]) \/ s0[i] = 46
            /\ LET from == IF StartsWith(s0, 1, <<104, 116, 116, 112, 115, 58, 47, 47>>) THEN 9 ELSE 8 IN
               \E k \in (from + 1)..(Len(s0) - 1) :
                   /\ s0[k] = 46
                   /\ \A i \in from..Len(s0) : i # k => AnyChar(s0[i])
    IN
    LET
        \* /^.{2,32}#[0-9]{4}$/
        IsDiscordTag(s0) ==
            /\ Len(s0) >= 7 /\ Len(s0) <= 37
            /\ s0[Len(s0) - 4] = 35
            /\ \A i \in (Len(s0) - 3)..Len(s0) : IsDigit(s0[i])
            /\ \A i \in 1..(Len(s0) - 5) : AnyChar(s0[i])
    IN
    LET
        \* /^[a-zA-Z0-9](?:[a-zA-Z0-9]|-(?=[a-zA-Z0-9])){0,38}$/
        IsGithubName(s0) ==
            /\ Len(s0) >= 1 /\ Len(s0) <= 39
            /\ IsAlnum(s0[1])
            /\ \A i \in 2..Len(s0) :
                  IsAlnum(s0[i]) \/ (s0[i] = 45 /\ i < Len(s0) /\ IsAlnum(s0[i + 1]))
    IN
    LET
        \* /^[class]{lo,hi}$/
        AllIn(s0, lo, hi, Class(_)) ==
            Len(s0) >= lo /\ Len(s0) <= hi /\ \A i \in 1..Len(s0) : Class(s0[i])
    IN
    LET
        AlnumDash(c) == IsAlnum(c) \/ c = 45              \* [a-zA-Z0-9-]
    IN
    LET
        WordDotDash(c) == IsAlnum(c) \/ c \in {45, 46, 95} \* [a-zA-Z0-9._-]
    IN
    LET
        WordDash(c) == IsAlnum(c) \/ c \in {45, 95}       \* [a-zA-Z0-9_-]
    IN
    LET
        WordDot(c) == IsAlnum(c) \/ c \in {46, 95}        \* [a-zA-Z0-9._]
    IN
    CASE platform = "INSTAGRAM" -> AllIn(s, 1, 30, WordDot)
      [] platform = "X" -> AllIn(s, 1, 15, Word)
      [] platform = "BLUESKY" -> IsDomain(s)
      [] platform = "LINKEDIN" -> AllIn(s, 3, 100, AlnumDash)
      [] platform = "YOUTUBE" -> AllIn(s, 1, 100, AnyChar)
      [] platform = "SPOTIFY" -> AllIn(s, 1, 100, AnyChar)
      [] platform = "TIKTOK" -> AllIn(s, 1, 24, WordDot)
      [] platform = "SNAPCHAT" -> AllIn(s, 3, 15, WordDotDash)
      [] platform = "GITHUB" -> IsGithubName(s)
      [] platform = "FACEBOOK" -> AllIn(s, 5, 50, AnyChar)
      [] platform = "REDDIT" -> AllIn(s, 3, 20, WordDash)
      [] platform = "DISCORD" -> IsDiscordTag(s)
      [] platform = "TWITCH" -> AllIn(s, 4, 25, Word)
      [] platform = "TELEGRAM" -> AllIn(s, 5, 32, Word)
      [] platform = "PINTEREST" -> AllIn(s, 3, 30, Word)
      [] platform = "TUMBLR" -> AllIn(s, 1, 32, AlnumDash)
      [] platform = "SOUNDCLOUD" -> AllIn(s, 3, 25, WordDash)
      [] platform = "BANDCAMP" -> AllIn(s, 1, 30, AlnumDash)
      [] platform = "PATREON" -> AllIn(s, 1, 30, Word)
      [] platform = "KO_FI" -> AllIn(s, 1, 30, Word)
      [] platform = "MASTODON" -> IsMastodon(s)
      [] platform = "WEBSITE" -> IsWebsite(s)
      [] platform = "EMAIL" -> IsEmail(s)
      [] OTHER -> TRUE

\* validateHandle(platform, handle)
validateHandle(platform, handle) ==
    IF handle = <<>> \/ Trim(handle) = <<>> THEN FALSE
    ELSE MatchesPattern(platform, handle)

\* createSocialLink accepting whatever normalizeHandle returns
createSocialLink_NoValidation(platform, input) ==
    LET made(normalized) ==
            IF normalized.kind = "null" \/ normalized.value = <<>> THEN Null
            ELSE Ok([platform |-> platform, handle |-> normalized.value])
    IN made(normalizeHandle(platform, input))

\* createSocialLink(platform, input): null, or the link
createSocialLink(platform, input) ==
    LET made(normalized) ==
            IF normalized.kind = "null" \/ normalized.value = <<>>
               \/ ~validateHandle(platform, normalized.value)
            THEN Null
            ELSE Ok([platform |-> platform, handle |-> normalized.value])
    IN made(normalizeHandle(platform, input))

(***************************************************************************)
(* SocialsStep: the inputs, blur, and Next.                                *)
(***************************************************************************)
MaxFilled == 2    \* inputs holding text at the same time

\* what the user types into the input of a platform
Typed(platform) ==
    CASE platform = "X" ->
            { <<98, 111, 98>>, <<64, 98, 111, 98>>, <<64, 64, 98, 111, 98>>, <<64>>, <<32>>, <<97, 32, 98>>, <<104, 116, 116, 112, 115, 58, 47, 47, 120, 46, 99, 111, 109, 47, 98, 111, 98>> }
      [] platform = "REDDIT" -> { <<117, 47, 98, 111, 98>>, <<117, 47, 117, 47, 98, 111, 98>> }
      [] platform = "EMAIL" -> { <<65, 64, 66, 46, 99, 111>>, <<97, 64, 98>> }
      [] platform = "WEBSITE" -> { <<97, 46, 105, 111>> }
      [] platform = "GITHUB" -> { <<104, 116, 116, 112, 115, 58, 47, 47, 103, 105, 116, 104, 117, 98, 46, 99, 111, 109, 47, 97, 45, 98, 63, 116, 97, 98, 61, 120>>, <<97, 45, 45, 98>> }
      [] platform = "BLUESKY" -> { <<64, 98, 46, 105, 111>>, <<98, 46, 105, 111>> }
      [] platform = "DISCORD" -> { <<98, 111, 35, 49, 50, 51, 52>> }
      [] OTHER -> {}

\* normalized ?? ''
OrEmpty(normalized) == IF normalized.kind = "null" THEN <<>> ELSE normalized.value

\* the inputs handleNext looks at: input.value.trim() is not empty
NonEmpty(inputs) == { p \in Platforms : Trim(inputs[p].value) # <<>> }

\* handleNext, lines 124-137: the links, in the order of allPlatforms
Links(inputs) ==
    LET linked == SelectSeq(allPlatforms,
                     LAMBDA p : p \in NonEmpty(inputs)
                                /\ createSocialLink(p, inputs[p].value).kind = "ok")
    IN [i \in 1..Len(linked) |-> createSocialLink(linked[i], inputs[linked[i]].value).value]

\* handleNext, lines 125-137: hasErrors
hasErrors(inputs) ==
    \E p \in NonEmpty(inputs) : createSocialLink(p, inputs[p].value).kind = "null"

\* what handleInputBlur and the re-validation of handleNext make of an input
Revalidated(platform, input) ==
    IF Trim(input.value) = <<>> THEN input
    ELSE [value |-> OrEmpty(normalizeHandle(platform, input.value)),
          error |-> IF validateHandle(platform, OrEmpty(normalizeHandle(platform, input.value)))
                    THEN "" ELSE "Invalid format for this platform"]

\* the user edits the input of platform
handleInputChange(platform, value) ==
    /\ ~submitted.called
    /\ value # socialInputs[platform].value
    /\ Cardinality({p \in Platforms \ {platform} : socialInputs[p].value # <<>>}) < MaxFilled
    /\ socialInputs' = [socialInputs EXCEPT ![platform] = [value |-> value, error |-> ""]]
    /\ ret' = PageRet("handleInputChange")
    /\ UNCHANGED <<submitted, avatarStep, page, wire, store>>

\* the input of platform loses the focus
handleInputBlur(platform) ==
    /\ ~submitted.called
    /\ socialInputs' = [socialInputs EXCEPT ![platform] = Revalidated(platform, @)]
    /\ ret' = PageRet("handleInputBlur")
    /\ UNCHANGED <<submitted, avatarStep, page, wire, store>>

\* the user presses Next
handleNext ==
    /\ ~submitted.called
    /\ ret' = [op |-> "handleNext", arg |-> [inputs |-> socialInputs],
               out |-> IF hasErrors(socialInputs) THEN Null ELSE Ok(Links(socialInputs))]
    /\ socialInputs' = IF hasErrors(socialInputs)
                       THEN [p \in Platforms |-> Revalidated(p, socialInputs[p])]
                       ELSE socialInputs
    /\ submitted' = IF hasErrors(socialInputs) THEN submitted
                    ELSE [called |-> TRUE, socials |-> Links(socialInputs)]
    /\ UNCHANGED <<avatarStep, page, wire, store>>

\* the flow comes back to the step: SocialsStep mounts again with the
\* links it passed on as its initialValue
Reopen ==
    /\ submitted.called
    /\ socialInputs' =
          [p \in Platforms |->
              [value |-> IF \E i \in 1..Len(submitted.socials) : submitted.socials[i].platform = p
                         THEN (CHOOSE l \in {submitted.socials[i] : i \in 1..Len(submitted.socials)} :
                                  l.platform = p).handle
                         ELSE <<>>,
               error |-> ""]]
    /\ submitted' = NotSubmitted
    /\ ret' = PageRet("reopen")
    /\ UNCHANGED <<avatarStep, page, wire, store>>

NextSocials ==
    LET
        \* the platforms whose inputs the user touches
        Touched == { p \in Platforms : Typed(p) # {} }
    IN
    \/ \E p \in Touched : \E v \in Typed(p) \cup {<<>>} : handleInputChange(p, v)
    \/ \E p \in Touched : handleInputBlur(p)
    \/ handleNext
    \/ Reopen

SpecSocials == Init /\ [][NextSocials]_vars

(***************************************************************************)
(* Properties of SocialsStep, checked under SpecSocials.                   *)
(***************************************************************************)
\* C27: a press of Next calls onNext exactly when every input that is not
\* empty normalizes to a handle that validateHandle accepts for its
\* platform, and then with one link per such input and no other: the
\* platform's, with the normalized handle, no platform twice.
NextOnlyWhenAllValid ==
    ret.op = "handleNext"
        => LET inputs == ret.arg.inputs IN
           /\ ret.out.kind = "ok"
                <=> \A p \in NonEmpty(inputs) :
                       validateHandle(p, OrEmpty(normalizeHandle(p, inputs[p].value)))
           /\ ret.out.kind = "ok"
                => /\ Len(ret.out.value) = Cardinality(NonEmpty(inputs))
                   /\ \A p \in NonEmpty(inputs) :
                         \E i \in 1..Len(ret.out.value) :
                            ret.out.value[i] =
                               [platform |-> p,
                                handle |-> OrEmpty(normalizeHandle(p, inputs[p].value))]
                   /\ \A i, j \in 1..Len(ret.out.value) :
                         ret.out.value[i].platform = ret.out.value[j].platform => i = j
                   /\ submitted = [called |-> TRUE, socials |-> ret.out.value]
           /\ ret.out.kind # "ok" => ~submitted.called

NextOnlyWhenAllValidWitness ==
    /\ ret.op = "handleNext"
    /\ ret.arg.inputs["X"].value = <<104, 116, 116, 112, 115, 58, 47, 47, 120, 46, 99, 111, 109, 47, 98, 111, 98>>
    /\ ret.arg.inputs["EMAIL"].value = <<65, 64, 66, 46, 99, 111>>
    /\ ret.out = Ok(<< [platform |-> "X", handle |-> <<98, 111, 98>>],
                       [platform |-> "EMAIL", handle |-> <<97, 64, 98, 46, 99, 111>>] >>)

\* C28: a press of Next while some input shows a validation error does not
\* call onNext.
ErrorShownNeverSubmitted ==
    (ret.op = "handleNext"
        /\ \E p \in Platforms : ret.arg.inputs[p].error # "")
        => ret.out.kind = "null"

(***************************************************************************)
(* AvatarStep and utils/imageProcessing.                                   *)
(***************************************************************************)
\* validateImageType(file)
validateImageType(file) ==
    file.type \in {"image/jpeg", "image/jpg", "image/png", "image/gif", "image/webp"}

\* validateImageSize(file, maxSizeInMB)
validateImageSize(file, maxSizeInMB) == file.size <= maxSizeInMB * 1024 * 1024

Files ==
    LET
        Outcomes == {"ok", "read", "load", "canvas", "thrown"}
    IN
    LET
        FileSizes == {1, 10 * 1024 * 1024, 10 * 1024 * 1024 + 1}
    IN
    LET
        \* the files the user selects.  outcome is what reading, loading and
        \* drawing the file will come to: "ok", "read" (the reader fails or has no
        \* result), "load" (the image does not load), "canvas" (no 2d context) or
        \* "thrown" (something that is not an Error is thrown).
        FileTypes == {"image/png", "image/jpg", "image/svg+xml", "text/plain", ""}
    IN
         [type : FileTypes, size : FileSizes, outcome : Outcomes]

\* the data URL resizeAndCompressImage returns for the image of file:
\* 'data:image/jpeg;base64,' and data that depends on the image
DataUrl(file) ==
    <<100, 97, 116, 97, 58, 105, 109, 97, 103, 101, 47, 106, 112, 101, 103, 59, 98, 97, 115, 101, 54, 52, 44>>
        \o (IF file.type = "image/png" THEN <<80>> ELSE <<74>>)
        \o (IF file.size = 1 THEN <<49>> ELSE <<50>>)

\* processImageFile(file, 0.7): the data URL, or the rejection
processImageFile(file) ==
    IF ~(Len(file.type) >= 6 /\ SubSeq(file.type, 1, 6) = "image/")
    THEN Throw("File must be an image")
    ELSE CASE file.outcome = "read" -> Throw("Failed to read file")
           [] file.outcome = "load" -> Throw("Failed to load image")
           [] file.outcome = "canvas" -> Throw("Failed to get canvas context")
           [] file.outcome = "thrown" -> Throw("")
           [] OTHER -> Ok(DataUrl(file))

\* the message of the catch block: err.message for an Error, and 'Failed to
\* process image' for anything else
CaughtMessage(rejection) ==
    IF rejection.error = "" THEN "Failed to process image" ELSE rejection.error

\* the file input's change event: nothing without a file; a file of a wrong
\* type or size is refused at once; any other is handed to processImageFile
handleFileSelect(file) ==
    /\ ~avatarStep.isProcessing
    /\ ret' = [op |-> "handleFileSelect",
               arg |-> [file |-> file, avatar |-> avatarStep.avatar],
               out |-> Null]
    /\ avatarStep' =
          IF file = NoFile THEN avatarStep
          ELSE IF ~validateImageType(file)
          THEN [avatarStep EXCEPT
                   !.error = "Please select a valid image file (JPEG, PNG, GIF, or WebP)",
                   !.isProcessing = FALSE]
          ELSE IF ~validateImageSize(file, 10)
          THEN [avatarStep EXCEPT
                   !.error = "Image file is too large. Maximum size is 10MB",
                   !.isProcessing = FALSE]
          ELSE [avatarStep EXCEPT !.error = "", !.isProcessing = TRUE, !.file = file]
    /\ UNCHANGED <<socialInputs, submitted, page, wire, store>>

\* processImageFile settling with the avatar reset on a failure
ProcessingSettles_DropsAvatar ==
    /\ avatarStep.isProcessing
    /\ ret' = [op |-> "processImageFile",
               arg |-> [file |-> avatarStep.file, avatar |-> avatarStep.avatar],
               out |-> processImageFile(avatarStep.file)]
    /\ avatarStep' =
          IF processImageFile(avatarStep.file).kind = "ok"
          THEN [avatar |-> [has |-> TRUE, url |-> processImageFile(avatarStep.file).value],
                isProcessing |-> FALSE, error |-> "", file |-> NoFile]
          ELSE [avatar |-> NoAvatar, isProcessing |-> FALSE,
                error |-> CaughtMessage(processImageFile(avatarStep.file)),
                file |-> NoFile]
    /\ UNCHANGED <<socialInputs, submitted, page, wire, store>>

\* processImageFile settles and handleFileSelect resumes: setAvatar, or the
\* catch block, then the finally block
ProcessingSettles ==
    /\ avatarStep.isProcessing
    /\ ret' = [op |-> "processImageFile",
               arg |-> [file |-> avatarStep.file, avatar |-> avatarStep.avatar],
               out |-> processImageFile(avatarStep.file)]
    /\ avatarStep' =
          IF processImageFile(avatarStep.file).kind = "ok"
          THEN [avatar |-> [has |-> TRUE, url |-> processImageFile(avatarStep.file).value],
                isProcessing |-> FALSE, error |-> "", file |-> NoFile]
          ELSE [avatar |-> avatarStep.avatar, isProcessing |-> FALSE,
                error |-> CaughtMessage(processImageFile(avatarStep.file)),
                file |-> NoFile]
    /\ UNCHANGED <<socialInputs, submitted, page, wire, store>>

\* the Remove button, shown while there is an avatar and nothing is processed
handleRemoveAvatar ==
    /\ avatarStep.avatar.has
    /\ ~avatarStep.isProcessing
    /\ ret' = PageRet("handleRemoveAvatar")
    /\ avatarStep' = [avatarStep EXCEPT !.avatar = NoAvatar, !.error = ""]
    /\ UNCHANGED <<socialInputs, submitted, page, wire, store>>

\* the Continue and Skip buttons, disabled while a file is processed:
\* onComplete(avatar)
handleComplete ==
    /\ ~avatarStep.isProcessing
    /\ ret' = [op |-> "handleComplete", arg |-> <<>>, out |-> Ok(avatarStep.avatar)]
    /\ UNCHANGED <<avatarStep, socialInputs, submitted, page, wire, store>>

NextFlow ==
    \/ \E m \in Modes : RenderOnboarding(m)
    \/ \E m \in Modes : ChangeMode(m)
    \/ PressCreate
    \/ PressBack
    \/ \E file \in Files \cup {NoFile} : handleFileSelect(file)
    \/ ProcessingSettles
    \/ handleRemoveAvatar
    \/ handleComplete

SpecFlow == Init /\ [][NextFlow]_vars

(***************************************************************************)
(* Properties of AvatarStep, checked under SpecFlow.                       *)
(***************************************************************************)
\* C29: a selection that fails (a file of a type validateImageType refuses,
\* a file over 10MB, or a rejection of processImageFile) leaves AvatarStep
\* not processing, with the avatar it had and an error message; and a step
\* gives AvatarStep an avatar it did not have only when processImageFile
\* resolved for a file that passed both validations.
FailedSelectionKeepsAvatar ==
    /\ []((ret.op = "handleFileSelect" /\ ret.arg.file # NoFile
            /\ ~(validateImageType(ret.arg.file) /\ validateImageSize(ret.arg.file, 10)))
            => (/\ ~avatarStep.isProcessing
                /\ avatarStep.avatar = ret.arg.avatar
                /\ avatarStep.error # ""))
    /\ []((ret.op = "processImageFile" /\ ret.out.kind = "error")
            => (/\ ~avatarStep.isProcessing
                /\ avatarStep.avatar = ret.arg.avatar
                /\ avatarStep.error # ""))
    /\ [][(avatarStep'.avatar # avatarStep.avatar /\ avatarStep'.avatar.has)
             => (/\ ret'.op = "processImageFile"
                 /\ validateImageType(avatarStep.file)
                 /\ validateImageSize(avatarStep.file, 10)
                 /\ avatarStep.file.outcome = "ok"
                 /\ avatarStep'.avatar.url = DataUrl(avatarStep.file))]_vars

FailedSelectionKeepsAvatarWitness ==
    /\ ret.op = "processImageFile"
    /\ ret.out = Throw("Failed to load image")
    /\ ret.arg.avatar.has
    /\ avatarStep.avatar = ret.arg.avatar
    /\ avatarStep.error = "Failed to load image"

====
